---- MODULE Spec2Model ----
(***************************************************************************)
(* A model of optimum/neuron/modeling_diffusion.py: the data-parallel      *)
(* loading of the compiled sub-models, the construction of the pipeline    *)
(* from a directory, the export with its compile cache and the saving of   *)
(* a pipeline.                                                             *)
(*                                                                         *)
(* Python values are records with a field `kind`: None, a Path (its        *)
(* components), a list (its items), a loaded TorchScript module, a         *)
(* DataParallel wrapper.  A dict is a function from its keys.  The         *)
(* data_parallel_mode None is the string "None".  The file system `fs`     *)
(* is a function from the components of each existing file to its content. *)
(***************************************************************************)
EXTENDS Integers, Sequences, FiniteSets, TLC

VARIABLES pc, call, fs, hub, ret, pipeline

vars == <<pc, call, fs, hub, ret, pipeline>>

\* The largest number of controlnet directories of a model directory.
MaxControlNets == 2

-----------------------------------------------------------------------------
(* Values *)

NoneVal == [kind |-> "None"]

Path(parts) == [kind |-> "Path", parts |-> parts]

PyList(items) == [kind |-> "list", items |-> items]

EmptyDict == [n \in {} |-> NoneVal]

\* dict.get(key): None for a key the dict lacks
Get(d, key) == IF key \in DOMAIN d THEN d[key] ELSE NoneVal

\* `p is not None and p.is_file()`
IsFile(files, p) ==
  p.kind = "Path" /\ p.parts \in DOMAIN files /\ files[p.parts].kind # "dir"

NEURON_FILE_NAME == "model.neuron"

CONFIG_NAME == "config.json"

\* f"controlnet_{idx}" for idx = 0, 1, ...
ControlNetDirNames == <<"controlnet_0", "controlnet_1", "controlnet_2", "controlnet_3">>

\* The keys of `submodels` in load_model, in insertion order.
SubmodelOrder ==
  <<"text_encoder", "unet", "vae_decoder", "vae_encoder", "text_encoder_2", "controlnet">>

SingleNames == {"text_encoder", "unet", "vae_decoder", "vae_encoder", "text_encoder_2"}

RECURSIVE Flatten(_, _)
\* The concatenation of byName[n] for n in `order`.
Flatten(order, byName) ==
  IF order = <<>> THEN <<>>
  ELSE (IF Head(order) \in DOMAIN byName THEN byName[Head(order)] ELSE <<>>)
         \o Flatten(Tail(order), byName)

-----------------------------------------------------------------------------
(* load_model *)

\* The module NeuronTracedModel.load_model(path, to_neuron=...) returns.
TracedLoad(path, to_neuron) ==
  [kind |-> "ScriptModule", path |-> path, to_neuron |-> to_neuron]

\* One entry of the record of NeuronTracedModel.load_model calls.
LoadCall(path, to_neuron) == [path |-> path, to_neuron |-> to_neuron]

\* torch_neuronx.DataParallel(module, [0, 1], set_dynamic_batching=...)
DataParallel(module, dynamic_batch_size) ==
  [kind |-> "DataParallel", module |-> module, device_ids |-> <<0, 1>>,
   set_dynamic_batching |-> dynamic_batch_size]

\* `if not isinstance(submodel_paths, list): submodel_paths = [submodel_paths]`
AsPathList(v) == IF v.kind = "list" THEN v.items ELSE <<v>>

\* The paths of a list that pass `is not None and is_file()`, in order.
ExistingFiles(files, paths) == SelectSeq(paths, LAMBDA p : IsFile(files, p))

\* `submodels_list if len(submodels_list) > 1 else submodels_list[0]`, None when empty
ListOrSingle(ms) ==
  IF Len(ms) > 1 THEN PyList(ms) ELSE IF Len(ms) = 1 THEN ms[1] ELSE NoneVal

\* What load_model hands back: the dict, the loads it made, the exception.
Loaded(submodels, loads) == [raised |-> "none", submodels |-> submodels, loads |-> loads]

Failed(exc, loads) == [raised |-> exc, submodels |-> EmptyDict, loads |-> loads]

MutAllToNeuron(files, paths, dynamic_batch_size, to_neuron) ==
  LET found == [n \in DOMAIN paths |-> ExistingFiles(files, AsPathList(paths[n]))]
  IN  Loaded(
        [n \in DOMAIN paths |->
           ListOrSingle([i \in 1..Len(found[n]) |->
             DataParallel(TracedLoad(found[n][i], to_neuron), dynamic_batch_size)])],
        Flatten(SubmodelOrder,
          [n \in DOMAIN paths |->
             [i \in 1..Len(found[n]) |-> LoadCall(found[n][i], to_neuron)]]))

\* data_parallel_mode == "all"
LoadModelAll(files, paths, dynamic_batch_size, to_neuron) ==
  LET found == [n \in DOMAIN paths |-> ExistingFiles(files, AsPathList(paths[n]))]
  IN  Loaded(
        [n \in DOMAIN paths |->
           ListOrSingle([i \in 1..Len(found[n]) |->
             DataParallel(TracedLoad(found[n][i], FALSE), dynamic_batch_size)])],
        Flatten(SubmodelOrder,
          [n \in DOMAIN paths |->
             [i \in 1..Len(found[n]) |-> LoadCall(found[n][i], FALSE)]]))

MutNoneWrapped(files, paths, dynamic_batch_size, to_neuron) ==
  LoadModelAll(files, paths, dynamic_batch_size, to_neuron)

\* data_parallel_mode == "none"
LoadModelNone(files, paths, dynamic_batch_size, to_neuron) ==
  LET found == [n \in DOMAIN paths |-> ExistingFiles(files, AsPathList(paths[n]))]
  IN  Loaded(
        [n \in DOMAIN paths |->
           ListOrSingle([i \in 1..Len(found[n]) |-> TracedLoad(found[n][i], to_neuron)])],
        Flatten(SubmodelOrder,
          [n \in DOMAIN paths |->
             [i \in 1..Len(found[n]) |-> LoadCall(found[n][i], to_neuron)]]))

\* The keys left after submodels.pop("unet"); submodels.pop("controlnet").
UnetModeRest == <<"text_encoder", "vae_decoder", "vae_encoder", "text_encoder_2">>

\* `if controlnet_paths:`
Truthy(v) == v.kind = "list" /\ Len(v.items) > 0

MutUnetWrapsRest(files, paths, dynamic_batch_size, to_neuron, unet_loads) ==
  LoadModelAll(files, paths, dynamic_batch_size, to_neuron)

\* data_parallel_mode == "unet".  The U-Net is loaded without an is_file()
\* test; unet_loads says whether that load of a missing file returns.
LoadModelUnet(files, paths, dynamic_batch_size, to_neuron, unet_loads) ==
  LET rest == {UnetModeRest[i] : i \in 1..Len(UnetModeRest)}
      restFound == [n \in rest |-> IF IsFile(files, paths[n]) THEN <<paths[n]>> ELSE <<>>]
      restLoads == Flatten(UnetModeRest,
                     [n \in rest |-> [i \in 1..Len(restFound[n]) |->
                                        LoadCall(restFound[n][i], to_neuron)]])
      restModels == [n \in rest |->
                       IF IsFile(files, paths[n]) THEN TracedLoad(paths[n], to_neuron)
                       ELSE NoneVal]
      unetLoad == <<LoadCall(paths["unet"], FALSE)>>
      unetModel == [n \in {"unet"} |->
                      DataParallel(TracedLoad(paths["unet"], FALSE), dynamic_batch_size)]
      cnFound == IF Truthy(paths["controlnet"])
                 THEN SelectSeq(paths["controlnet"].items, LAMBDA p : IsFile(files, p))
                 ELSE <<>>
      cnLoads == [i \in 1..Len(cnFound) |-> LoadCall(cnFound[i], FALSE)]
      cnModel == IF Truthy(paths["controlnet"])
                 THEN [n \in {"controlnet"} |->
                         ListOrSingle([i \in 1..Len(cnFound) |->
                           DataParallel(TracedLoad(cnFound[i], FALSE), dynamic_batch_size)])]
                 ELSE EmptyDict
  IN  IF ~IsFile(files, paths["unet"]) /\ ~unet_loads
      THEN Failed("LoadError", restLoads \o unetLoad)
      ELSE Loaded(restModels @@ unetModel @@ cnModel, restLoads \o unetLoad \o cnLoads)

MutDefaultsToNone(files, data_parallel_mode, paths, dynamic_batch_size, to_neuron, unet_loads) ==
  IF data_parallel_mode = "all"
  THEN LoadModelAll(files, paths, dynamic_batch_size, to_neuron)
  ELSE IF data_parallel_mode = "unet"
  THEN LoadModelUnet(files, paths, dynamic_batch_size, to_neuron, unet_loads)
  ELSE LoadModelNone(files, paths, dynamic_batch_size, to_neuron)

\* NeuronStableDiffusionPipelineBase.load_model
load_model(files, data_parallel_mode, paths, dynamic_batch_size, to_neuron, unet_loads) ==
  IF data_parallel_mode = "all"
  THEN LoadModelAll(files, paths, dynamic_batch_size, to_neuron)
  ELSE IF data_parallel_mode = "unet"
  THEN LoadModelUnet(files, paths, dynamic_batch_size, to_neuron, unet_loads)
  ELSE IF data_parallel_mode = "none"
  THEN LoadModelNone(files, paths, dynamic_batch_size, to_neuron)
  ELSE Failed("ValueError", <<>>)

-----------------------------------------------------------------------------
(* A direct call of load_model *)

Modes == {"none", "unet", "all", "None", "both"}

ModelPath(dir, name) == Path(<<dir, name, NEURON_FILE_NAME>>)

ControlNetPaths(dir, k) ==
  PyList([i \in 1..k |-> ModelPath(dir, ControlNetDirNames[i])])

NeffFile == [kind |-> "neff"]

\* The arguments of a call of load_model and the files they name.
InitLoad ==
  /\ pc = "call"
  /\ hub = EmptyDict
  /\ ret = NoneVal
  /\ pipeline = NoneVal
  /\ \E mode \in Modes, to_neuron \in BOOLEAN, dyn \in BOOLEAN,
        given \in SUBSET SingleNames, k \in -1..MaxControlNets :
       LET paths == [n \in SingleNames |->
                       IF n \in given THEN ModelPath("D", n) ELSE NoneVal]
                    @@ [n \in {"controlnet"} |->
                          IF k < 0 THEN NoneVal ELSE ControlNetPaths("D", k)]
           named == {paths[n].parts : n \in given}
                      \cup {ModelPath("D", ControlNetDirNames[i]).parts : i \in 1..k}
       IN  /\ call = [op |-> "load_model", data_parallel_mode |-> mode, paths |-> paths,
                      dynamic_batch_size |-> dyn, to_neuron |-> to_neuron]
           /\ \E present \in SUBSET named : fs = [p \in present |-> NeffFile]

LoadModel ==
  /\ pc = "call"
  /\ call.op = "load_model"
  /\ \E unet_loads \in BOOLEAN :
       ret' = load_model(fs, call.data_parallel_mode, call.paths,
                         call.dynamic_batch_size, call.to_neuron, unet_loads)
  /\ pc' = "done"
  /\ UNCHANGED <<call, fs, hub, pipeline>>

NextLoad == LoadModel

SpecLoad == InitLoad /\ [][NextLoad]_vars

-----------------------------------------------------------------------------
(* Properties of load_model *)

Returned(op) == pc = "done" /\ call.op = op

\* The modules of a returned value: none for None, the items of a list.
ModulesOf(v) ==
  IF v.kind = "None" THEN <<>> ELSE IF v.kind = "list" THEN v.items ELSE <<v>>

\* The controlnet paths of the call that are existing files, in order.
ControlNetFiles ==
  IF call.paths["controlnet"].kind = "list"
  THEN SelectSeq(call.paths["controlnet"].items, LAMBDA p : p.parts \in DOMAIN fs)
  ELSE <<>>

TimesLoaded(p) == Cardinality({i \in DOMAIN ret.loads : ret.loads[i].path = p})

IsWrapped(v, p) ==
  /\ v.kind = "DataParallel"
  /\ v.device_ids = <<0, 1>>
  /\ v.module.kind = "ScriptModule"
  /\ v.module.path = p

IsPlain(v, p, to_neuron) ==
  /\ v.kind = "ScriptModule"
  /\ v.path = p
  /\ v.to_neuron = to_neuron

\* C1: with data_parallel_mode "all" every sub-model whose path is an existing
\* file is returned wrapped in a DataParallel over cores 0 and 1 and is loaded
\* with to_neuron=False whatever the caller passed; every sub-model with no
\* path, or a path that is no file, is returned as None.
C1_AllWrapsEveryFile ==
  (Returned("load_model") /\ call.data_parallel_mode = "all") =>
    /\ ret.raised = "none"
    /\ \A n \in SingleNames :
         IF IsFile(fs, call.paths[n])
         THEN /\ IsWrapped(ret.submodels[n], call.paths[n])
              /\ ret.submodels[n].module.to_neuron = FALSE
         ELSE ret.submodels[n] = NoneVal
    /\ LET got == ModulesOf(ret.submodels["controlnet"])
       IN  /\ Len(got) = Len(ControlNetFiles)
           /\ \A i \in 1..Len(got) :
                /\ IsWrapped(got[i], ControlNetFiles[i])
                /\ got[i].module.to_neuron = FALSE
    /\ \A i \in DOMAIN ret.loads : ret.loads[i].to_neuron = FALSE

C1_Witness ==
  /\ Returned("load_model")
  /\ call.data_parallel_mode = "all"
  /\ call.to_neuron = TRUE
  /\ IsFile(fs, call.paths["text_encoder"])
  /\ call.paths["vae_encoder"].kind = "Path" /\ ~IsFile(fs, call.paths["vae_encoder"])
  /\ call.paths["text_encoder_2"] = NoneVal
  /\ Len(ControlNetFiles) = 1
  /\ Len(call.paths["controlnet"].items) = 2
  /\ ret.submodels["controlnet"].kind = "DataParallel"
  /\ ret.submodels["text_encoder"].kind = "DataParallel"
  /\ ret.submodels["vae_encoder"] = NoneVal

C3_NoneWrapsNothing ==
  (Returned("load_model") /\ call.data_parallel_mode = "none") =>
    /\ ret.raised = "none"
    /\ \A n \in SingleNames :
         IF IsFile(fs, call.paths[n])
         THEN /\ IsPlain(ret.submodels[n], call.paths[n], call.to_neuron)
              /\ TimesLoaded(call.paths[n]) = 1
         ELSE /\ ret.submodels[n] = NoneVal
              /\ call.paths[n].kind = "Path" => TimesLoaded(call.paths[n]) = 0
    /\ LET got == ModulesOf(ret.submodels["controlnet"])
       IN  /\ Len(got) = Len(ControlNetFiles)
           /\ \A i \in 1..Len(got) :
                /\ IsPlain(got[i], ControlNetFiles[i], call.to_neuron)
                /\ TimesLoaded(ControlNetFiles[i]) = 1
    /\ Len(ret.loads) = Cardinality(DOMAIN fs)
    /\ \A i \in DOMAIN ret.loads : ret.loads[i].to_neuron = call.to_neuron

C3_Witness ==
  /\ Returned("load_model")
  /\ call.data_parallel_mode = "none"
  /\ call.to_neuron = TRUE
  /\ IsFile(fs, call.paths["unet"])
  /\ call.paths["vae_decoder"].kind = "Path" /\ ~IsFile(fs, call.paths["vae_decoder"])
  /\ call.paths["text_encoder"] = NoneVal
  /\ Len(ControlNetFiles) = 2
  /\ ret.submodels["controlnet"].kind = "list"
  /\ ret.submodels["unet"].kind = "ScriptModule"

\* C4: a data_parallel_mode that is none of "none", "unet", "all" (None
\* included) raises ValueError, and no sub-model file has been loaded or
\* placed on a NeuronCore by then.
C4_BadModeRaisesBeforeLoading ==
  (Returned("load_model") /\ call.data_parallel_mode \notin {"none", "unet", "all"}) =>
    /\ ret.raised = "ValueError"
    /\ ret.loads = <<>>
    /\ ret.submodels = EmptyDict

C4_Witness ==
  /\ Returned("load_model")
  /\ call.data_parallel_mode = "None"
  /\ IsFile(fs, call.paths["unet"])
  /\ IsFile(fs, call.paths["text_encoder"])
  /\ ret.raised = "ValueError"

-----------------------------------------------------------------------------
(* Strings: a str is the sequence of its characters *)

\* str.lower(), character by character
ToLower ==
  ("A" :> "a") @@ ("B" :> "b") @@ ("C" :> "c") @@ ("D" :> "d") @@ ("E" :> "e") @@ ("F" :> "f") @@ ("G" :> "g") @@ ("H" :> "h") @@ ("I" :> "i") @@ ("J" :> "j") @@ ("K" :> "k") @@ ("L" :> "l") @@ ("M" :> "m") @@ ("N" :> "n") @@ ("O" :> "o") @@ ("P" :> "p") @@ ("Q" :> "q") @@ ("R" :> "r") @@ ("S" :> "s") @@ ("T" :> "t") @@ ("U" :> "u") @@ ("V" :> "v") @@ ("W" :> "w") @@ ("X" :> "x") @@ ("Y" :> "y") @@ ("Z" :> "z")

Lower(s) == [i \in 1..Len(s) |-> IF s[i] \in DOMAIN ToLower THEN ToLower[s[i]] ELSE s[i]]

\* `pattern in s`
Contains(s, pattern) ==
  \E i \in 1..(Len(s) - Len(pattern) + 1) : SubSeq(s, i, i + Len(pattern) - 1) = pattern

\* s.startswith(prefix)
StartsWith(s, prefix) == Len(s) >= Len(prefix) /\ SubSeq(s, 1, Len(prefix)) = prefix

\* The characters of the names of the sub-directories of a model directory.
NameChars ==
  ("text_encoder" :> <<"t", "e", "x", "t", "_", "e", "n", "c", "o", "d", "e", "r">>) @@
  ("text_encoder_2" :> <<"t", "e", "x", "t", "_", "e", "n", "c", "o", "d", "e", "r", "_", "2">>) @@
  ("unet" :> <<"u", "n", "e", "t">>) @@
  ("vae_encoder" :> <<"v", "a", "e", "_", "e", "n", "c", "o", "d", "e", "r">>) @@
  ("vae_decoder" :> <<"v", "a", "e", "_", "d", "e", "c", "o", "d", "e", "r">>) @@
  ("controlnet" :> <<"c", "o", "n", "t", "r", "o", "l", "n", "e", "t">>) @@
  ("controlnet_0" :> <<"c", "o", "n", "t", "r", "o", "l", "n", "e", "t", "_", "0">>) @@
  ("controlnet_1" :> <<"c", "o", "n", "t", "r", "o", "l", "n", "e", "t", "_", "1">>) @@
  ("controlnet_2" :> <<"c", "o", "n", "t", "r", "o", "l", "n", "e", "t", "_", "2">>) @@
  ("controlnet_3" :> <<"c", "o", "n", "t", "r", "o", "l", "n", "e", "t", "_", "3">>) @@
  ("tokenizer" :> <<"t", "o", "k", "e", "n", "i", "z", "e", "r">>) @@
  ("scheduler" :> <<"s", "c", "h", "e", "d", "u", "l", "e", "r">>)

\* getattr(obj, name, default) and dict.get(name, default)
GetAttr(obj, name, default) == IF name \in DOMAIN obj THEN obj[name] ELSE default

-----------------------------------------------------------------------------
(* The default data-parallel mode *)

\* patterns = ["lcm", "latent-consistency"]
LcmPatterns == <<<<"l", "c", "m">>, <<"l", "a", "t", "e", "n", "t", "-", "c", "o", "n", "s", "i", "s", "t", "e", "n", "c", "y">>>>

MutIsLcmCaseSensitive(unet_config) ==
  LET unet_name_or_path == GetAttr(unet_config, "name_or_path", <<>>)
  IN  \E i \in 1..Len(LcmPatterns) : Contains(unet_name_or_path, LcmPatterns[i])

\* NeuronStableDiffusionPipelineBase.is_lcm
is_lcm(unet_config) ==
  LET unet_name_or_path == Lower(GetAttr(unet_config, "name_or_path", <<>>))
  IN  \E i \in 1..Len(LcmPatterns) : Contains(unet_name_or_path, LcmPatterns[i])

\* NeuronStableDiffusionPipelineBase.set_default_dp_mode
set_default_dp_mode(unet_config) == IF is_lcm(unet_config) THEN "all" ELSE "unet"

\* The values of a U-Net config's _name_or_path that are tried.
UnetNames ==
  {<<"s", "d">>,
   <<"L", "C", "M">>,
   <<"l", "c", "m", "-", "s", "d">>,
   <<"a", "/", "L", "c", "m", "_", "x">>,
   <<"l", "c", "-", "m">>,
   <<"L", "a", "t", "e", "n", "t", "-", "C", "o", "n", "s", "i", "s", "t", "e", "n", "c", "y">>,
   <<"l", "a", "t", "e", "n", "t", "_", "c", "o", "n", "s", "i", "s", "t", "e", "n", "c", "y">>}

-----------------------------------------------------------------------------
(* The file system *)

DirEntry == [kind |-> "dir"]

\* Path.is_dir()
IsDir(files, p) ==
  p.kind = "Path" /\ p.parts \in DOMAIN files /\ files[p.parts].kind = "dir"

ConfigPath(dir, name) == Path(<<dir, name, CONFIG_NAME>>)

\* path.parent
Parent(p) == Path(SubSeq(p.parts, 1, Len(p.parts) - 1))

\* The sequences that list the elements of S once each, in some order.
Orderings(S) ==
  {s \in [1..Cardinality(S) -> S] : \A i, j \in 1..Cardinality(S) : s[i] = s[j] => i = j}

\* The sub-directories `new_model_save_dir.iterdir()` yields that pass
\* `path.is_dir() and path.name.startswith("controlnet")`.
ControlNetDirs(files, dir) ==
  {d \in DOMAIN NameChars :
     /\ IsDir(files, Path(<<dir, d>>))
     /\ StartsWith(NameChars[d], NameChars["controlnet"])}

-----------------------------------------------------------------------------
(* NeuronStableDiffusionPipelineBase.__init__ *)

\* The keys of model_and_config_save_paths, in insertion order.
SaveOrder ==
  <<"text_encoder", "text_encoder_2", "unet", "vae_encoder", "vae_decoder", "controlnet">>

\* cls._neuron_config_init(model_config)
NeuronConfig(model_config) ==
  [kind |-> "NeuronConfig",
   batch_size |-> model_config.neuron["batch_size"],
   dynamic_batch_size |-> model_config.neuron["dynamic_batch_size"],
   config |-> model_config]

\* NeuronModelTextEncoder, NeuronModelUnet, NeuronModelVaeEncoder,
\* NeuronModelVaeDecoder, NeuronControlNetModel: _NeuronDiffusionModelPart
Adapter(cls, model, config, neuron_config) ==
  [kind |-> cls, model |-> model, config |-> config, neuron_config |-> neuron_config]

\* NeuronMultiControlNetModel.__init__
MultiAdapter(models, config, neuron_config) ==
  [kind |-> "NeuronMultiControlNetModel", nets |-> models.items,
   config |-> config, neuron_config |-> neuron_config]

RECURSIVE AllDynamic(_, _)
\* all(neuron_config._config.neuron["dynamic_batch_size"] for neuron_config in
\* self.neuron_configs.values()): a list of neuron configs has no _config.
AllDynamic(order, neuron_configs) ==
  IF order = <<>> THEN "True"
  ELSE IF Head(order) \notin DOMAIN neuron_configs
  THEN AllDynamic(Tail(order), neuron_configs)
  ELSE IF neuron_configs[Head(order)].kind = "list" THEN "AttributeError"
  ELSE IF ~neuron_configs[Head(order)].config.neuron["dynamic_batch_size"] THEN "False"
  ELSE AllDynamic(Tail(order), neuron_configs)

MutAdapterClassVaeSwapped(name) ==
  CASE name = "text_encoder" -> "NeuronModelTextEncoder"
    [] name = "text_encoder_2" -> "NeuronModelTextEncoder"
    [] name = "unet" -> "NeuronModelUnet"
    [] name = "vae_encoder" -> "NeuronModelVaeDecoder"
    [] name = "vae_decoder" -> "NeuronModelVaeEncoder"
    [] name = "controlnet" -> "NeuronControlNetModel"

\* The adapter class __init__ wraps each compiled module in.
AdapterClass(name) ==
  CASE name = "text_encoder" -> "NeuronModelTextEncoder"
    [] name = "text_encoder_2" -> "NeuronModelTextEncoder"
    [] name = "unet" -> "NeuronModelUnet"
    [] name = "vae_encoder" -> "NeuronModelVaeEncoder"
    [] name = "vae_decoder" -> "NeuronModelVaeDecoder"
    [] name = "controlnet" -> "NeuronControlNetModel"

Built(pipe) == [raised |-> "none", pipe |-> pipe]

Raised(exc) == [raised |-> exc, pipe |-> NoneVal]

\* `not d` for a dict or None
Falsy(d) == DOMAIN d = {} \/ d = NoneVal

\* `v is not None and not isinstance(v, cls)`
ToWrap(v, cls) == v.kind # "None" /\ v.kind # cls

\* The second text encoder's batch size is looked at first.
MutTextEncoder2First(neuron_configs) ==
  IF "text_encoder_2" \in DOMAIN neuron_configs
  THEN neuron_configs["unet"].batch_size \div neuron_configs["text_encoder_2"].batch_size
  ELSE IF "text_encoder" \in DOMAIN neuron_configs
  THEN neuron_configs["unet"].batch_size \div neuron_configs["text_encoder"].batch_size
  ELSE 1

\* `unet_batch_size // text_encoder_batch_size`, or 1
NumImagesPerPrompt(neuron_configs) ==
  IF "text_encoder" \in DOMAIN neuron_configs
  THEN neuron_configs["unet"].batch_size \div neuron_configs["text_encoder"].batch_size
  ELSE IF "text_encoder_2" \in DOMAIN neuron_configs
  THEN neuron_configs["unet"].batch_size \div neuron_configs["text_encoder_2"].batch_size
  ELSE 1

\* NeuronStableDiffusionPipelineBase.__init__
PipelineInit(a) ==
  LET absent(name) == name \notin DOMAIN a.configs \/ name \notin DOMAIN a.neuron_configs
      wrap(name, v) == Adapter(AdapterClass(name), v, a.configs[name], a.neuron_configs[name])
      wrapControlNet == a.controlnet.kind \notin
                          {"None", "NeuronControlNetModel", "NeuronMultiControlNetModel"}
      keyError ==
        \/ a.text_encoder.kind # "None" /\ absent("text_encoder")
        \/ ToWrap(a.text_encoder_2, AdapterClass("text_encoder_2")) /\ absent("text_encoder_2")
        \/ absent("unet")
        \/ ToWrap(a.vae_encoder, AdapterClass("vae_encoder")) /\ absent("vae_encoder")
        \/ ToWrap(a.vae_decoder, AdapterClass("vae_decoder")) /\ absent("vae_decoder")
        \/ wrapControlNet /\ absent("controlnet")
      lcm == is_lcm(a.configs["unet"])
  IN  IF AllDynamic(SaveOrder, a.neuron_configs) = "AttributeError"
      THEN Raised("AttributeError")
      ELSE IF keyError THEN Raised("KeyError")
      ELSE IF lcm /\ a.scheduler.kind = "None" THEN Raised("AttributeError")
      ELSE IF a.vae_decoder.kind = "None" THEN Raised("AttributeError")
      ELSE Built(
        [kind |-> "pipeline",
         data_parallel_mode |-> a.data_parallel_mode,
         configs |-> a.configs,
         neuron_configs |-> a.neuron_configs,
         dynamic_batch_size |-> AllDynamic(SaveOrder, a.neuron_configs) = "True",
         text_encoder |-> IF a.text_encoder.kind # "None"
                          THEN wrap("text_encoder", a.text_encoder)
                          ELSE NoneVal,
         text_encoder_2 |-> IF ToWrap(a.text_encoder_2, AdapterClass("text_encoder_2"))
                            THEN wrap("text_encoder_2", a.text_encoder_2)
                            ELSE a.text_encoder_2,
         unet |-> wrap("unet", a.unet),
         vae_encoder |-> IF ToWrap(a.vae_encoder, AdapterClass("vae_encoder"))
                         THEN wrap("vae_encoder", a.vae_encoder)
                         ELSE a.vae_encoder,
         vae_decoder |-> IF ToWrap(a.vae_decoder, AdapterClass("vae_decoder"))
                         THEN wrap("vae_decoder", a.vae_decoder)
                         ELSE a.vae_decoder,
         controlnet |-> IF wrapControlNet
                        THEN IF a.controlnet.kind = "list" /\ Len(a.controlnet.items) > 1
                             THEN MultiAdapter(a.controlnet, a.configs["controlnet"],
                                               a.neuron_configs["controlnet"])
                             ELSE wrap("controlnet", a.controlnet)
                        ELSE a.controlnet,
         tokenizer |-> a.tokenizer,
         tokenizer_2 |-> a.tokenizer_2,
         scheduler |-> IF lcm THEN [kind |-> "LCMScheduler"] ELSE a.scheduler,
         is_lcm |-> lcm,
         feature_extractor |-> a.feature_extractor,
         model_save_dir |-> a.model_save_dir,
         model_and_config_save_paths |-> IF Falsy(a.model_and_config_save_paths)
                                         THEN NoneVal
                                         ELSE a.model_and_config_save_paths,
         num_images_per_prompt |-> NumImagesPerPrompt(a.neuron_configs),
         replaced |-> {}])

-----------------------------------------------------------------------------
(* _from_pretrained *)

\* model_and_config_save_paths; `listing` is the order in which iterdir()
\* yields the controlnet directories.
SavePaths(dir, listing) ==
  [n \in SingleNames |-> [model |-> ModelPath(dir, n), config |-> ConfigPath(dir, n)]]
  @@ [n \in {"controlnet"} |->
        [model |-> PyList([i \in 1..Len(listing) |-> ModelPath(dir, listing[i])]),
         config |-> PyList([i \in 1..Len(listing) |-> ConfigPath(dir, listing[i])])]]

\* The config files of a sub-model that exist, read, in order.
ConfigsRead(files, config_paths) ==
  LET found == ExistingFiles(files, AsPathList(config_paths))
  IN  [i \in 1..Len(found) |-> files[found[i].parts]]

\* `x if len(x) > 1 else x[0]`
ListOrFirst(xs) == IF Len(xs) > 1 THEN PyList(xs) ELSE xs[1]

\* Only the first config read decides.
MutFirstInline(model_configs) ==
  IF model_configs = <<>> THEN TRUE
  ELSE GetAttr(Head(model_configs).neuron, "inline_weights_to_neff", TRUE)

RECURSIVE AllInline(_)
\* inline_weights_to_neff = inline_weights_to_neff and neuron.get("inline_weights_to_neff", True)
AllInline(model_configs) ==
  IF model_configs = <<>> THEN TRUE
  ELSE GetAttr(Head(model_configs).neuron, "inline_weights_to_neff", TRUE)
         /\ AllInline(Tail(model_configs))

\* The preloaded components a caller may hand to _from_pretrained.
NoPreloaded ==
  [text_encoder_2 |-> NoneVal, vae_encoder |-> NoneVal, vae_decoder |-> NoneVal,
   controlnet |-> NoneVal]

\* `a or b`
Or(a, b) == IF a.kind # "None" THEN a ELSE b

\* The processors of the model index that are loaded, None for the others.
Processor(config, name) == IF name \in config THEN [kind |-> name] ELSE NoneVal

FromResult(built, loaded_with, loads) ==
  [raised |-> built.raised, pipe |-> built.pipe, loaded_with |-> loaded_with, loads |-> loads]

MutAlwaysDefaultMode(data_parallel_mode, configs) ==
  set_default_dp_mode(configs["unet"])

\* `if data_parallel_mode is None: data_parallel_mode = cls.set_default_dp_mode(configs["unet"])`
ChooseMode(data_parallel_mode, configs) ==
  IF data_parallel_mode = "None" THEN set_default_dp_mode(configs["unet"])
  ELSE data_parallel_mode

\* NeuronStableDiffusionPipelineBase._from_pretrained on a local directory
from_pretrained(files, model_id, config, preloaded, model_save_dir, data_parallel_mode, listing, unet_loads) ==
  LET save_paths == SavePaths(model_id, listing)
      read == [n \in DOMAIN save_paths |-> ConfigsRead(files, save_paths[n].config)]
      withConfig == {n \in DOMAIN save_paths : Len(read[n]) > 0}
      configs == [n \in withConfig |-> ListOrFirst(read[n])]
      neuron_configs ==
        [n \in withConfig |->
           ListOrFirst([i \in 1..Len(read[n]) |-> NeuronConfig(read[n][i])])]
      inline_weights_to_neff == AllInline(Flatten(SaveOrder, read))
      mode == ChooseMode(data_parallel_mode, configs)
      paths ==
        [text_encoder |-> save_paths["text_encoder"].model,
         unet |-> save_paths["unet"].model,
         vae_decoder |-> IF preloaded.vae_decoder.kind = "None"
                         THEN save_paths["vae_decoder"].model ELSE NoneVal,
         vae_encoder |-> IF preloaded.vae_encoder.kind = "None"
                         THEN save_paths["vae_encoder"].model ELSE NoneVal,
         text_encoder_2 |-> IF preloaded.text_encoder_2.kind = "None"
                            THEN save_paths["text_encoder_2"].model ELSE NoneVal,
         controlnet |-> IF preloaded.controlnet.kind = "None"
                           /\ Truthy(save_paths["controlnet"].model)
                        THEN save_paths["controlnet"].model ELSE NoneVal]
      loaded_with ==
        [kind |-> "load_model", data_parallel_mode |-> mode, paths |-> paths,
         dynamic_batch_size |-> neuron_configs["unet"].dynamic_batch_size,
         to_neuron |-> ~inline_weights_to_neff]
      pipe == load_model(files, mode, paths, loaded_with.dynamic_batch_size,
                         loaded_with.to_neuron, unet_loads)
  IN  IF "unet" \notin withConfig THEN FromResult(Raised("KeyError"), NoneVal, <<>>)
      ELSE IF pipe.raised # "none" THEN FromResult(Raised(pipe.raised), loaded_with, pipe.loads)
      ELSE FromResult(
             PipelineInit(
               [text_encoder |-> Get(pipe.submodels, "text_encoder"),
                unet |-> Get(pipe.submodels, "unet"),
                vae_decoder |-> Or(preloaded.vae_decoder, Get(pipe.submodels, "vae_decoder")),
                config |-> config,
                tokenizer |-> Processor(config, "tokenizer"),
                scheduler |-> Processor(config, "scheduler"),
                vae_encoder |-> Or(preloaded.vae_encoder, Get(pipe.submodels, "vae_encoder")),
                text_encoder_2 |->
                  Or(preloaded.text_encoder_2, Get(pipe.submodels, "text_encoder_2")),
                controlnet |-> Or(preloaded.controlnet, Get(pipe.submodels, "controlnet")),
                tokenizer_2 |-> Processor(config, "tokenizer_2"),
                feature_extractor |-> Processor(config, "feature_extractor"),
                data_parallel_mode |-> mode,
                configs |-> configs,
                neuron_configs |-> neuron_configs,
                model_save_dir |-> IF model_save_dir.kind = "None"
                                   THEN Path(<<model_id>>) ELSE model_save_dir,
                model_and_config_save_paths |-> save_paths]),
             loaded_with, pipe.loads)

-----------------------------------------------------------------------------
(* A call of _from_pretrained on a model directory *)

\* A sub-model's config.json: the model config with its `neuron` dict.
\* inline is "true", "false" or "absent" (the field is not in the file).
ModelConfig(name_or_path, inline, dynamic_batch_size, batch_size) ==
  [kind |-> "config", name_or_path |-> name_or_path,
   neuron |-> [dynamic_batch_size |-> dynamic_batch_size, batch_size |-> batch_size]
              @@ (IF inline = "absent" THEN EmptyDict
                  ELSE [inline_weights_to_neff |-> inline = "true"])]

\* The content of a compiled model file: which compilation it came from.
CompiledModel(dir, name) == [kind |-> "neff", of |-> <<dir, name>>]

\* The directory of one sub-model, with its compiled file and its config.
SubmodelDir(dir, name, hasModel, cfg) ==
  (<<dir, name>> :> DirEntry)
  @@ (IF hasModel THEN (<<dir, name, NEURON_FILE_NAME>> :> CompiledModel(dir, name))
      ELSE EmptyDict)
  @@ (IF cfg.kind = "config" THEN (<<dir, name, CONFIG_NAME>> :> cfg) ELSE EmptyDict)

RECURSIVE MergeAll(_)
MergeAll(fns) == IF fns = <<>> THEN EmptyDict ELSE Head(fns) @@ MergeAll(Tail(fns))

\* A model directory: the sub-models in `present` with their file and config
\* (the U-Net's config only when unetConfig), and one controlnet directory
\* for each element of cn, with its compiled file when the element is TRUE.
ModelDir(dir, present, unetConfig, unet_name, cn, inline, dyn, unet_bs, te_bs) ==
  (<<dir>> :> DirEntry)
  @@ MergeAll([i \in 1..Len(SaveOrder) |->
       LET n == SaveOrder[i]
       IN  IF n \in present
           THEN SubmodelDir(dir, n, TRUE,
                  IF n = "unet"
                  THEN (IF unetConfig THEN ModelConfig(unet_name, inline, dyn, unet_bs)
                        ELSE NoneVal)
                  ELSE ModelConfig(<<>>, inline, dyn, te_bs))
           ELSE EmptyDict])
  @@ MergeAll([i \in 1..Len(cn) |->
       SubmodelDir(dir, ControlNetDirNames[i], cn[i], ModelConfig(<<>>, inline, dyn, unet_bs))])

InitFrom ==
  /\ pc = "call"
  /\ hub = EmptyDict
  /\ ret = NoneVal
  /\ pipeline = NoneVal
  /\ \E mode \in Modes, unet_name \in UnetNames, k \in 0..MaxControlNets,
        optional \in SUBSET {"vae_encoder", "text_encoder_2"},
        unetConfig \in BOOLEAN, inline \in {"true", "false"}, dyn \in BOOLEAN :
       /\ call = [op |-> "_from_pretrained", model_id |-> "D",
                  config |-> {"tokenizer", "scheduler"}, preloaded |-> NoPreloaded,
                  model_save_dir |-> NoneVal, data_parallel_mode |-> mode]
       /\ fs = ModelDir("D", {"text_encoder", "unet", "vae_decoder"} \cup optional,
                        unetConfig, unet_name, [i \in 1..k |-> TRUE], inline, dyn, 2, 1)

FromPretrained ==
  /\ pc = "call"
  /\ call.op = "_from_pretrained"
  /\ \E listing \in Orderings(ControlNetDirs(fs, call.model_id)), unet_loads \in BOOLEAN :
       /\ ret' = from_pretrained(fs, call.model_id, call.config, call.preloaded,
                                 call.model_save_dir, call.data_parallel_mode,
                                 listing, unet_loads)
       /\ pipeline' = ret'.pipe
  /\ pc' = "done"
  /\ UNCHANGED <<call, fs, hub>>

NextFrom == FromPretrained

SpecFrom == InitFrom /\ [][NextFrom]_vars

-----------------------------------------------------------------------------
(* Properties of _from_pretrained *)

\* The U-Net names among UnetNames that hold "lcm" or "latent-consistency",
\* in any case.
LcmNames ==
  {<<"L", "C", "M">>, <<"l", "c", "m", "-", "s", "d">>,
   <<"a", "/", "L", "c", "m", "_", "x">>,
   <<"L", "a", "t", "e", "n", "t", "-", "C", "o", "n", "s", "i", "s", "t", "e", "n", "c", "y">>}

UnetConfigFile == fs[<<call.model_id, "unet", CONFIG_NAME>>]

ExpectedMode ==
  IF call.data_parallel_mode # "None" THEN call.data_parallel_mode
  ELSE IF UnetConfigFile.name_or_path \in LcmNames THEN "all"
  ELSE "unet"

\* C5: _from_pretrained loads with, and records on the pipeline, the mode the
\* caller passed; only for the mode None it takes a default, "all" when the
\* U-Net config's _name_or_path holds "lcm" or "latent-consistency" in any
\* case and "unet" otherwise.
C5_ModeExplicitOrDefault ==
  Returned("_from_pretrained") =>
    /\ ret.loaded_with.kind = "load_model" =>
         ret.loaded_with.data_parallel_mode = ExpectedMode
    /\ ret.raised = "none" => ret.pipe.data_parallel_mode = ExpectedMode

C5_Witness ==
  /\ Returned("_from_pretrained")
  /\ call.data_parallel_mode = "None"
  /\ ret.raised = "none"
  /\ UnetConfigFile.name_or_path = <<"a", "/", "L", "c", "m", "_", "x">>
  /\ ret.pipe.data_parallel_mode = "all"
  /\ ret.pipe.text_encoder.model.kind = "DataParallel"

-----------------------------------------------------------------------------
(* _export *)

\* The caller's auto_cast_type whatever auto_cast is.
MutKeepsCastType(auto_cast, auto_cast_type) ==
  [auto_cast |-> auto_cast, auto_cast_type |-> auto_cast_type]

\* `auto_cast_type = None if auto_cast is None else auto_cast_type`; the
\* None of these optional strings is the string "None".
CompilerKwargs(auto_cast, auto_cast_type) ==
  [auto_cast |-> auto_cast,
   auto_cast_type |-> IF auto_cast = "None" THEN "None" ELSE auto_cast_type]

\* The names of the sub-models load_models_and_neuron_configs and main_export
\* handle for a pipeline: the second text encoder for SDXL only, one
\* controlnet per controlnet id.
ExportNames(a) ==
  {"text_encoder", "unet", "vae_encoder", "vae_decoder"}
    \cup (IF a.arch = "sdxl" THEN {"text_encoder_2"} ELSE {})
    \cup {ControlNetDirNames[i] : i \in 1..a.controlnets}

\* The compiled batch size of a sub-model: the U-Net and the controlnets take
\* batch_size * num_images_per_prompt samples.
ExportBatchSize(name, a) ==
  IF name \in {"text_encoder", "text_encoder_2"} THEN a.batch_size
  ELSE a.batch_size * a.num_images_per_prompt

\* model.config of a sub-model of the original pipeline
OriginalConfig(name, a) ==
  [name_or_path |-> IF name = "unet" THEN a.unet_name
                    ELSE IF name \in {"vae_encoder", "vae_decoder"} THEN a.vae_name
                    ELSE <<>>]

\* store_compilation_config(...) for one sub-model
CompilationConfig(name, a, compiler_kwargs) ==
  [config |-> OriginalConfig(name, a),
   input_shapes |-> [batch_size |-> ExportBatchSize(name, a)],
   compiler_kwargs |-> compiler_kwargs,
   dynamic_batch_size |-> a.dynamic_batch_size,
   compiler_type |-> "neuronx-cc",
   inline_weights_to_neff |-> a.inline_weights_to_neff,
   optlevel |-> a.optlevel]

\* No sub-model is left out of the compilation configs.
MutSkipsNothing(name) == FALSE

\* `if "vae" in name: continue`
SkippedInCache(name) == Contains(NameChars[name], <<"v", "a", "e">>)

\* compilation_configs of _export
CompilationConfigs(a) ==
  [n \in {m \in ExportNames(a) : ~SkippedInCache(m)} |->
     CompilationConfig(n, a, CompilerKwargs(a.auto_cast, a.auto_cast_type))]

\* f"MODULE_{cache_entry.hash}" of ModelCacheEntry(model_id, build_cache_config(...))
CacheKey(a) ==
  [prefix |-> "MODULE_",
   hash |-> [model_id |-> a.model_id, config |-> CompilationConfigs(a)]]

\* compile_cache.download_folder(model_cache_dir, model_cache_dir)
CacheExists(hubv, key) == key \in DOMAIN hubv

\* The directory get_cache_dir_with_cache_key gives.
CacheDir == "CACHE"

\* The TemporaryDirectory main_export writes to.
OutputDir == "OUT"

\* What main_export leaves in its output directory: each sub-model's
\* compiled file and config.
CompiledFiles(dir, a) ==
  LET names == ExportNames(a)
      order == SaveOrder \o SubSeq(ControlNetDirNames, 1, a.controlnets)
  IN  (<<dir>> :> DirEntry)
      @@ MergeAll([i \in 1..Len(order) |->
           IF order[i] \in names
           THEN SubmodelDir(dir, order[i], TRUE,
                  ModelConfig(OriginalConfig(order[i], a).name_or_path,
                              IF a.inline_weights_to_neff THEN "true" ELSE "false",
                              a.dynamic_batch_size, ExportBatchSize(order[i], a)))
           ELSE EmptyDict])

\* One call of main_export: the arguments _export passes.
MainExportCall(a, compiler_kwargs) ==
  [output |-> OutputDir, compiler_kwargs |-> compiler_kwargs,
   disable_neuron_cache |-> a.disable_neuron_cache,
   inline_weights_to_neff |-> a.inline_weights_to_neff,
   dynamic_batch_size |-> a.dynamic_batch_size]

MutLookupAlways(disable_neuron_cache) == TRUE

\* `if not disable_neuron_cache:`
LooksUpCache(disable_neuron_cache) == ~disable_neuron_cache

MutCompileAlways(cache_exist) == TRUE

\* `if cache_exist: ... else: main_export(...)`
Compiles(cache_exist) == ~cache_exist

\* The directory _export loads the pipeline from.
ExportLoadDir(hubv, a) ==
  IF LooksUpCache(a.disable_neuron_cache) /\ CacheExists(hubv, CacheKey(a))
  THEN CacheDir ELSE OutputDir

\* The file system once the cache has been fetched or the model compiled.
ExportFiles(files, hubv, a) ==
  LET cache_exist == LooksUpCache(a.disable_neuron_cache) /\ CacheExists(hubv, CacheKey(a))
      fetched == IF cache_exist THEN hubv[CacheKey(a)] @@ files ELSE files
  IN  IF Compiles(cache_exist) THEN CompiledFiles(OutputDir, a) @@ fetched ELSE fetched

MutReplacesAlways(inline_weights_to_neff) == TRUE

\* `if not inline_weights_to_neff: neuron_model.replace_weights(weights=pipe)`
ReplacesWeights(inline_weights_to_neff) == ~inline_weights_to_neff

\* NeuronStableDiffusionPipelineBase.replace_weights: the sub-models that
\* both the pipeline and `weights` have get the weights of `weights`.
replace_weights(self, weights) ==
  [self EXCEPT !.replaced =
     {n \in {"text_encoder", "text_encoder_2", "unet", "vae_decoder", "vae_encoder"} :
        self[n].kind # "None" /\ n \in weights.attrs}]

ExportResult(r, files, lookups, compiles, loaded_from, replace_calls) ==
  [raised |-> r.raised, pipe |-> r.pipe, files |-> files, lookups |-> lookups,
   compiles |-> compiles, loaded_from |-> loaded_from, replace_calls |-> replace_calls,
   loaded_with |-> r.loaded_with, loads |-> r.loads]

\* NeuronStableDiffusionPipelineBase._export
export(files, hubv, a, listing, unet_loads) ==
  LET compiler_kwargs == CompilerKwargs(a.auto_cast, a.auto_cast_type)
      lookup == LooksUpCache(a.disable_neuron_cache)
      cache_exist == lookup /\ CacheExists(hubv, CacheKey(a))
      lookups == IF lookup THEN <<CacheKey(a)>> ELSE <<>>
      files2 == ExportFiles(files, hubv, a)
      compiles == IF Compiles(cache_exist)
                  THEN <<MainExportCall(a, compiler_kwargs)>> ELSE <<>>
      dir == ExportLoadDir(hubv, a)
      r == from_pretrained(files2, dir, a.config, NoPreloaded,
                           IF cache_exist THEN NoneVal ELSE Path(<<OutputDir>>),
                           a.data_parallel_mode, listing, unet_loads)
  IN  IF cache_exist /\ r.raised = "none" /\ ReplacesWeights(a.inline_weights_to_neff)
      THEN ExportResult([r EXCEPT !.pipe = replace_weights(r.pipe, a.pipe)],
                        files2, lookups, compiles, <<dir>>, 1)
      ELSE ExportResult(r, files2, lookups, compiles, <<dir>>, 0)

-----------------------------------------------------------------------------
(* A call of _export *)

\* The original pipeline get_model_from_task loads: the attributes that
\* carry weights.
OriginalPipe(arch) ==
  [kind |-> "diffusers",
   attrs |-> {"text_encoder", "unet", "vae"}
               \cup (IF arch = "sdxl" THEN {"text_encoder_2"} ELSE {})]

ExportArgs(arch, unet_name, vae_name, controlnets, shape, disable, inline, mode, auto_cast, auto_cast_type, dyn) ==
  [op |-> "_export", model_id |-> "M", arch |-> arch, pipe |-> OriginalPipe(arch),
   unet_name |-> unet_name, vae_name |-> vae_name, controlnets |-> controlnets,
   batch_size |-> shape[1], num_images_per_prompt |-> shape[2],
   config |-> {"tokenizer", "scheduler"},
   disable_neuron_cache |-> disable, inline_weights_to_neff |-> inline,
   data_parallel_mode |-> mode, auto_cast |-> auto_cast,
   auto_cast_type |-> auto_cast_type, dynamic_batch_size |-> dyn, optlevel |-> "2"]

\* The artifact an earlier export with the arguments `a` left in the cache.
Cached(a) == CacheKey(a) :> CompiledFiles(CacheDir, a)

OtherCastType(t) == IF t = "bf16" THEN "fp16" ELSE "bf16"

\* batch_size and num_images_per_prompt of the static shapes that are tried.
ExportShapes == {<<1, 4>>, <<2, 2>>}

InitExport ==
  /\ pc = "call"
  /\ ret = NoneVal
  /\ pipeline = NoneVal
  /\ fs = EmptyDict
  /\ \E arch \in {"sd", "sdxl"}, unet_name \in {<<"s", "d">>, <<"L", "C", "M">>},
        controlnets \in 0..MaxControlNets, shape \in ExportShapes,
        disable \in BOOLEAN, inline \in BOOLEAN, mode \in {"None", "none", "all"},
        auto_cast \in {"None", "matmul"}, auto_cast_type \in {"bf16", "fp16"},
        dyn \in BOOLEAN,
        earlier \in {"nothing", "same", "other vae", "other cast type"} :
       /\ call = ExportArgs(arch, unet_name, <<"v", "1">>, controlnets, shape, disable,
                            inline, mode, auto_cast, auto_cast_type, dyn)
       /\ hub = CASE earlier = "nothing" -> EmptyDict
                  [] earlier = "same" -> Cached(call)
                  [] earlier = "other vae" ->
                       Cached([call EXCEPT !.vae_name = <<"v", "2">>])
                  [] earlier = "other cast type" ->
                       Cached([call EXCEPT !.auto_cast_type = OtherCastType(auto_cast_type)])

Export ==
  /\ pc = "call"
  /\ call.op = "_export"
  /\ \E unet_loads \in BOOLEAN,
        listing \in Orderings(ControlNetDirs(ExportFiles(fs, hub, call),
                                             ExportLoadDir(hub, call))) :
       /\ ret' = export(fs, hub, call, listing, unet_loads)
       /\ pipeline' = ret'.pipe
       /\ fs' = ExportFiles(fs, hub, call)
  /\ pc' = "done"
  /\ UNCHANGED <<call, hub>>

NextExport == Export

SpecExport == InitExport /\ [][NextExport]_vars

-----------------------------------------------------------------------------
(* Properties of _export *)

\* C6: in a pipeline built by an export every compiled sub-model that is
\* present is wrapped in its own adapter class (NeuronModelTextEncoder for both
\* text encoders, NeuronModelUnet, NeuronModelVaeEncoder,
\* NeuronModelVaeDecoder), and a sub-model that is absent stays None.
C6_AdaptersMatchSubmodels ==
  (Returned("_export") /\ ret.raised = "none") =>
    LET present(n) == <<ret.loaded_from[1], n, NEURON_FILE_NAME>> \in DOMAIN fs
        isA(n, cls) == IF present(n) THEN ret.pipe[n].kind = cls ELSE ret.pipe[n] = NoneVal
    IN  /\ isA("text_encoder", "NeuronModelTextEncoder")
        /\ isA("text_encoder_2", "NeuronModelTextEncoder")
        /\ isA("unet", "NeuronModelUnet")
        /\ isA("vae_encoder", "NeuronModelVaeEncoder")
        /\ isA("vae_decoder", "NeuronModelVaeDecoder")
        /\ \A n \in {"text_encoder", "unet", "vae_encoder", "vae_decoder"} : present(n)
        /\ present("text_encoder_2") <=> call.arch = "sdxl"

C6_Witness ==
  /\ Returned("_export")
  /\ ret.raised = "none"
  /\ call.arch = "sdxl"
  /\ ret.compiles # <<>>
  /\ ret.pipe.text_encoder_2.kind = "NeuronModelTextEncoder"
  /\ ret.pipe.vae_encoder.kind = "NeuronModelVaeEncoder"
  /\ ret.pipe.vae_decoder.kind = "NeuronModelVaeDecoder"

\* C7: with the cache enabled the key MODULE_<hash> is looked up once, and
\* main_export is called if and only if the lookup finds no artifact: on a hit
\* the pipeline is loaded from the cache directory and nothing is compiled, on
\* a miss main_export is called once and the pipeline is loaded from its output
\* directory.
C7_CompilesIffCacheMiss ==
  (Returned("_export") /\ ~call.disable_neuron_cache) =>
    /\ Len(ret.lookups) = 1
    /\ ret.lookups[1].prefix = "MODULE_"
    /\ IF ret.lookups[1] \in DOMAIN hub
       THEN /\ ret.compiles = <<>>
            /\ ret.loaded_from = <<CacheDir>>
            /\ <<OutputDir>> \notin DOMAIN fs
       ELSE /\ Len(ret.compiles) = 1
            /\ ret.loaded_from = <<OutputDir>>
            /\ ret.compiles[1].output = OutputDir

C7_Witness ==
  /\ Returned("_export")
  /\ ~call.disable_neuron_cache
  /\ ret.lookups[1] \in DOMAIN hub
  /\ ret.raised = "none"
  /\ ret.compiles = <<>>
  /\ ret.pipe.unet.model.module.path.parts[1] = CacheDir

\* A miss of C7 with an artifact of another configuration in the cache.
C7_WitnessMiss ==
  /\ Returned("_export")
  /\ ~call.disable_neuron_cache
  /\ hub # EmptyDict
  /\ ret.lookups[1] \notin DOMAIN hub
  /\ Len(ret.compiles) = 1

\* C8: with disable_neuron_cache=True nothing is looked up or fetched from the
\* cache and no cached artifact is loaded: main_export is called once, with
\* disable_neuron_cache=True, and the pipeline is loaded from its output
\* directory.
C8_DisabledCacheAlwaysCompiles ==
  (Returned("_export") /\ call.disable_neuron_cache) =>
    /\ ret.lookups = <<>>
    /\ <<CacheDir>> \notin DOMAIN fs
    /\ Len(ret.compiles) = 1
    /\ ret.compiles[1].disable_neuron_cache = TRUE
    /\ ret.loaded_from = <<OutputDir>>
    /\ \A i \in DOMAIN ret.loads : ret.loads[i].path.parts[1] = OutputDir

C8_Witness ==
  /\ Returned("_export")
  /\ call.disable_neuron_cache
  /\ CacheKey(call) \in DOMAIN hub
  /\ ret.raised = "none"
  /\ ret.pipe.unet.model.module.path.parts[1] = OutputDir

\* C9: when a cached artifact is loaded, replace_weights is called with the
\* original pipeline if and only if inline_weights_to_neff is False; with
\* inline_weights_to_neff=True the cached pipeline is returned with no weight
\* replaced.
C9_ReplacesWeightsIffNotInlined ==
  (Returned("_export") /\ ret.raised = "none" /\ ret.loaded_from = <<CacheDir>>) =>
    /\ ret.replace_calls = (IF call.inline_weights_to_neff THEN 0 ELSE 1)
    /\ call.inline_weights_to_neff => ret.pipe.replaced = {}
    /\ ~call.inline_weights_to_neff => {"text_encoder", "unet"} \subseteq ret.pipe.replaced

C9_Witness ==
  /\ Returned("_export")
  /\ ret.raised = "none"
  /\ ret.loaded_from = <<CacheDir>>
  /\ ~call.inline_weights_to_neff
  /\ ret.replace_calls = 1
  /\ "unet" \in ret.pipe.replaced

\* The other case of C9: a cached artifact with inlined weights.
C9_WitnessInlined ==
  /\ Returned("_export")
  /\ ret.raised = "none"
  /\ ret.loaded_from = <<CacheDir>>
  /\ call.inline_weights_to_neff
  /\ ret.pipe.replaced = {}


-----------------------------------------------------------------------------
(* _save_pretrained *)

\* dict.pop(key)
Pop(d, key) == [k \in DOMAIN d \ {key} |-> d[k]]

\* The optional sub-models whose compiled file is tested, in the order of the
\* tests.
OptionalChecks == <<"vae_encoder", "text_encoder", "text_encoder_2">>

RECURSIVE PopMissing(_, _, _)
\* `if not paths.get(name)[0].is_file(): paths.pop(name)` for each name in
\* turn. get() of a key that is not in the dict is None, and None[0] raises
\* TypeError; the entries popped before that stay popped.
PopMissing(names, files, paths) ==
  IF names = <<>> THEN [raised |-> "none", paths |-> paths]
  ELSE IF Head(names) \notin DOMAIN paths THEN [raised |-> "TypeError", paths |-> paths]
  ELSE PopMissing(Tail(names), files,
                  IF IsFile(files, paths[Head(names)].model) THEN paths
                  ELSE Pop(paths, Head(names)))

\* `if not paths.get("controlnet")[0]: paths.pop("controlnet")`
PopControlNet(r) ==
  IF r.raised # "none" THEN r
  ELSE IF "controlnet" \notin DOMAIN r.paths THEN [raised |-> "TypeError", paths |-> r.paths]
  ELSE IF ~Truthy(r.paths["controlnet"].model)
       THEN [raised |-> "none", paths |-> Pop(r.paths, "controlnet")]
       ELSE r

\* num_controlnet
NumControlNet(paths) ==
  IF "controlnet" \in DOMAIN paths THEN Len(paths["controlnet"].model.items) ELSE 0

\* Every controlnet saved in the directory of the first.
MutControlNetDirFixed(idx) == ControlNetDirNames[1]

\* DIFFUSION_MODEL_CONTROLNET_NAME + f"_{str(idx)}"
ControlNetDirName(idx) == ControlNetDirNames[idx + 1]

\* dst_paths
DstPaths(save_directory, num_controlnet) ==
  [n \in SingleNames |-> Path(save_directory.parts \o <<n, NEURON_FILE_NAME>>)]
  @@ [n \in {"controlnet"} |->
        PyList([i \in 1..num_controlnet |->
                  Path(save_directory.parts
                         \o <<ControlNetDirName(i - 1), NEURON_FILE_NAME>>)])]

\* model_path.parent / CONFIG_NAME
ConfigDst(model_path) == Path(Parent(model_path).parts \o <<CONFIG_NAME>>)

RECURSIVE SrcPathsList(_, _)
\* src_paths_list: for each name its model file(s), then its config file(s).
SrcPathsList(names, paths) ==
  IF names = <<>> THEN <<>>
  ELSE LET e == paths[Head(names)]
       IN  (IF e.model.kind = "list" THEN e.model.items \o e.config.items
            ELSE <<e.model, e.config>>)
           \o SrcPathsList(Tail(names), paths)

RECURSIVE DstPathsList(_, _, _)
\* dst_paths_list, built in step with src_paths_list.
DstPathsList(names, paths, dst_paths) ==
  IF names = <<>> THEN <<>>
  ELSE LET d == dst_paths[Head(names)]
       IN  (IF paths[Head(names)].model.kind = "list"
            THEN d.items \o [i \in 1..Len(d.items) |-> ConfigDst(d.items[i])]
            ELSE <<d, ConfigDst(d)>>)
           \o DstPathsList(Tail(names), paths, dst_paths)

\* zip(src_paths_list, dst_paths_list)
Zip(xs, ys) ==
  [i \in 1..(IF Len(xs) < Len(ys) THEN Len(xs) ELSE Len(ys)) |->
     [src |-> xs[i], dst |-> ys[i]]]

\* path.mkdir(parents=True, exist_ok=True)
Mkdir(files, p) ==
  [q \in {SubSeq(p.parts, 1, j) : j \in 1..Len(p.parts)} \ DOMAIN files |-> DirEntry]
  @@ files

\* shutil.copyfile(src, dst)
CopyFile(files, src, dst) == (dst.parts :> files[src.parts]) @@ files

RECURSIVE CopyAll(_, _)
\* For each pair: make the destination's directory, copy the source if it is
\* a file.
CopyAll(pairs, files) ==
  IF pairs = <<>> THEN files
  ELSE LET made == Mkdir(files, Parent(Head(pairs).dst))
       IN  CopyAll(Tail(pairs),
                   IF IsFile(made, Head(pairs).src)
                   THEN CopyFile(made, Head(pairs).src, Head(pairs).dst)
                   ELSE made)


\* The components saved by their own save_pretrained, in the order of the
\* code, and whether the code tests them for None first.
SavedProcessors ==
  <<[name |-> "tokenizer", tested |-> TRUE],
    [name |-> "tokenizer_2", tested |-> TRUE],
    [name |-> "scheduler", tested |-> FALSE],
    [name |-> "feature_extractor", tested |-> TRUE]>>

\* What component.save_pretrained(save_directory / name) leaves: the
\* directory and the component's file in it.
ProcessorSaved(files, proc, dir) ==
  (dir.parts \o <<"saved">> :> [kind |-> "processor", of |-> proc.kind])
  @@ Mkdir(files, dir)

RECURSIVE SaveProcessors(_, _, _, _)
\* A component that is None is skipped when the code tests it, and
\* None.save_pretrained raises AttributeError when it does not.
SaveProcessors(procs, self, save_directory, files) ==
  IF procs = <<>> THEN [raised |-> "none", files |-> files]
  ELSE LET proc == self[Head(procs).name]
       IN  IF proc.kind = "None" /\ ~Head(procs).tested
           THEN [raised |-> "AttributeError", files |-> files]
           ELSE SaveProcessors(
                  Tail(procs), self, save_directory,
                  IF proc.kind = "None" THEN files
                  ELSE ProcessorSaved(files, proc,
                                      Path(save_directory.parts \o <<Head(procs).name>>)))

\* What a call of _save_pretrained leaves: the exception it raised if any,
\* the file system, the pipeline, and the copies it made.
SaveResult(raised, files, self, copies) ==
  [raised |-> raised, files |-> files, self |-> self, copies |-> copies]

\* A save that leaves the components that save themselves and nothing else.
MutSavesProcessorsOnly(files, self, save_directory) ==
  LET saved == SaveProcessors(SavedProcessors, self, save_directory, files)
  IN  SaveResult(saved.raised, saved.files, self, {})

\* `if self.model_and_config_save_paths is None: logger.warning(...); return`
SaveNothing(files, self, save_directory) == SaveResult("none", files, self, {})

\* _save_pretrained(self, save_directory)
save_pretrained(files, self, save_directory) ==
  IF self.model_and_config_save_paths = NoneVal
  THEN SaveNothing(files, self, save_directory)
  ELSE
    LET popped == PopControlNet(
                    PopMissing(OptionalChecks, files, self.model_and_config_save_paths))
        after == [self EXCEPT !.model_and_config_save_paths = popped.paths]
        dst_paths == DstPaths(save_directory, NumControlNet(popped.paths))
        \* The names are a set in the code: the order of the pairs varies, the
        \* pairs do not, and no two pairs have the same destination.
        names == SelectSeq(SaveOrder, LAMBDA n : n \in DOMAIN popped.paths
                                                   /\ n \in DOMAIN dst_paths)
        pairs == Zip(SrcPathsList(names, popped.paths),
                     DstPathsList(names, popped.paths, dst_paths))
        copied == CopyAll(pairs, files)
        saved == SaveProcessors(SavedProcessors, self, save_directory, copied)
    IN  IF popped.raised # "none" THEN SaveResult(popped.raised, files, after, {})
        ELSE SaveResult(saved.raised, saved.files, after,
                        {pairs[i] : i \in {j \in 1..Len(pairs) : IsFile(files, pairs[j].src)}})


-----------------------------------------------------------------------------
(* Saving a pipeline loaded from a model directory *)

\* How many times the loaded pipeline is saved.
MaxSaves == 2

\* The directories the pipeline is saved to.
SaveDirs == {"E", "F"}

\* The model directories: text_encoder, text_encoder_2 and vae_encoder may be
\* missing, and a controlnet directory may lack its compiled file.
InitSave ==
  /\ pc = "call"
  /\ hub = EmptyDict
  /\ ret = NoneVal
  /\ pipeline = NoneVal
  /\ \E optional \in SUBSET {"text_encoder", "text_encoder_2", "vae_encoder"},
        k \in 0..MaxControlNets, mode \in {"none", "all"} :
       \E cn \in [1..k -> BOOLEAN] :
         /\ call = [op |-> "_from_pretrained", model_id |-> "D",
                    config |-> {"tokenizer", "scheduler"}, preloaded |-> NoPreloaded,
                    model_save_dir |-> NoneVal, data_parallel_mode |-> mode]
         /\ fs = ModelDir("D", {"unet", "vae_decoder"} \cup optional, TRUE,
                          <<"s", "d">>, cn, "true", FALSE, 2, 1)

\* pipeline.save_pretrained(save_directory), on the pipeline loaded before
SavePretrained ==
  /\ pc = "done"
  /\ pipeline.kind = "pipeline"
  /\ \E save_directory \in SaveDirs, nth \in 1..MaxSaves :
       /\ \/ call.op \in {"_from_pretrained", "__init__"} /\ nth = 1
          \/ call.op = "_save_pretrained" /\ nth = call.nth + 1
       /\ LET r == save_pretrained(fs, pipeline, Path(<<save_directory>>))
          IN  /\ call' = [op |-> "_save_pretrained", self |-> pipeline,
                          save_directory |-> Path(<<save_directory>>), nth |-> nth]
              /\ ret' = [raised |-> r.raised, copies |-> r.copies]
              /\ fs' = r.files
              /\ pipeline' = r.self
  /\ UNCHANGED <<pc, hub>>

NextSave == FromPretrained \/ SavePretrained

SpecSave == InitSave /\ [][NextSave]_vars


-----------------------------------------------------------------------------
(* Properties of _save_pretrained *)

\* The file at dst is there and has the content of the file at src.
SavedAs(src, dst) == IsFile(fs, dst) /\ fs[dst.parts] = fs[src.parts]

\* The model and config paths recorded for a sub-model, controlnets one by
\* one, each with the directory name it is to be saved under.
RecordedSubmodels(paths) ==
  {[model |-> paths[n].model, config |-> paths[n].config, saved_in |-> n] :
     n \in DOMAIN paths \cap SingleNames}
  \cup (IF "controlnet" \in DOMAIN paths
        THEN {[model |-> paths["controlnet"].model.items[i],
               config |-> paths["controlnet"].config.items[i],
               saved_in |-> ControlNetDirNames[i]] :
                i \in 1..Len(paths["controlnet"].model.items)}
        ELSE {})

\* Every recorded sub-model whose compiled file exists has that file, and its
\* config if it has one, under its own name in the directory `dir`.
Mirrored(paths, dir) ==
  \A m \in RecordedSubmodels(paths) :
    IsFile(fs, m.model) =>
      /\ SavedAs(m.model, Path(dir.parts \o <<m.saved_in, NEURON_FILE_NAME>>))
      /\ IsFile(fs, m.config) =>
           SavedAs(m.config, Path(dir.parts \o <<m.saved_in, CONFIG_NAME>>))

\* Every copy made went from a recorded sub-model's file to that sub-model's
\* place for that kind of file.
NoCrossCopy(paths, dir, copies) ==
  \A c \in copies :
    \E m \in RecordedSubmodels(paths) :
      \/ c = [src |-> m.model,
              dst |-> Path(dir.parts \o <<m.saved_in, NEURON_FILE_NAME>>)]
      \/ c = [src |-> m.config,
              dst |-> Path(dir.parts \o <<m.saved_in, CONFIG_NAME>>)]

\* C10: after a call of _save_pretrained, every sub-model recorded in
\* model_and_config_save_paths whose compiled file exists has that file at
\* save_directory/<name>/<file name> and its config at
\* save_directory/<name>/config.json, the i-th controlnet under
\* controlnet_<i>, and no file was copied to the place of another sub-model
\* or of the other kind.
C10_SaveMirrorsBySubmodel ==
  Returned("_save_pretrained") =>
    /\ Mirrored(call.self.model_and_config_save_paths, call.save_directory)
    /\ NoCrossCopy(call.self.model_and_config_save_paths, call.save_directory, ret.copies)

\* A call of _save_pretrained that raises nothing mirrors the files.
SaveMirrorsUnlessRaised ==
  Returned("_save_pretrained") /\ ret.raised = "none" =>
    /\ Mirrored(call.self.model_and_config_save_paths, call.save_directory)
    /\ NoCrossCopy(call.self.model_and_config_save_paths, call.save_directory, ret.copies)

\* A call of _save_pretrained raises TypeError, and copies nothing, exactly
\* when an earlier call has popped one of the entries it tests.
SaveRaisesOnPoppedEntry ==
  Returned("_save_pretrained") =>
    /\ ret.raised \in {"none", "TypeError"}
    /\ ret.raised = "TypeError" <=>
         ~({"vae_encoder", "text_encoder", "text_encoder_2", "controlnet"}
             \subseteq DOMAIN call.self.model_and_config_save_paths)
    /\ ret.raised = "TypeError" => ret.copies = {} /\ call.nth > 1

\* The first save of a pipeline with two controlnets has copied both, each
\* under its index in the recorded list.
FirstSaveCopiesControlNets ==
  /\ Returned("_save_pretrained")
  /\ call.nth = 1
  /\ ret.raised = "none"
  /\ \E c \in ret.copies : c.dst = Path(call.save_directory.parts \o <<"controlnet_1", NEURON_FILE_NAME>>)
  /\ \E c \in ret.copies : c.dst = Path(call.save_directory.parts \o <<"text_encoder", CONFIG_NAME>>)


-----------------------------------------------------------------------------
(* Loading a saved pipeline again *)

\* The modes the saved directory is loaded with.
ReloadModes == {"None", "none", "unet", "all"}

\* cls._from_pretrained(save_directory), on the directory of the last save;
\* `pipeline` stays the pipeline that was saved, the new one is returned.
Reload ==
  /\ pc = "done"
  /\ call.op = "_save_pretrained"
  /\ IsDir(fs, call.save_directory)
  /\ \E mode \in ReloadModes :
       LET dir == call.save_directory.parts[1]
       IN  \E listing \in Orderings(ControlNetDirs(fs, dir)), unet_loads \in BOOLEAN :
             /\ call' = [op |-> "_from_pretrained", model_id |-> dir,
                         config |-> {"tokenizer", "scheduler"}, preloaded |-> NoPreloaded,
                         model_save_dir |-> NoneVal, data_parallel_mode |-> mode]
             /\ ret' = from_pretrained(fs, dir, call'.config, call'.preloaded,
                                       call'.model_save_dir, mode, listing, unet_loads)
  /\ pc' = "reloaded"
  /\ UNCHANGED <<fs, hub, pipeline>>

NextRoundTrip == FromPretrained \/ SavePretrained \/ Reload

SpecRoundTrip == InitSave /\ [][NextRoundTrip]_vars

\* The sub-models a pipeline has, controlnets aside.
PresentSubmodels(pipe) == {n \in SingleNames : pipe[n].kind # "None"}

\* The number of controlnets a pipeline has.
ControlNetCount(pipe) ==
  CASE pipe.controlnet.kind = "None" -> 0
    [] pipe.controlnet.kind = "NeuronMultiControlNetModel" -> Len(pipe.controlnet.nets)
    [] OTHER -> 1

C11_WitnessMissingFile ==
  /\ pc = "reloaded"
  /\ ret.raised = "none"
  /\ ControlNetCount(ret.pipe) = 1
  /\ Len(pipeline.model_and_config_save_paths["controlnet"].model.items) = 2


-----------------------------------------------------------------------------
(* Saving a pipeline built from modules in memory *)

\* The arguments of __init__ for modules the caller holds: the sub-models in
\* `present`, k controlnets, the components in `processors`.
InitArgs(present, k, processors, save_paths) ==
  LET module(n) == TracedLoad(ModelPath("M", n), FALSE)
      cfg == ModelConfig(<<"s", "d">>, "true", FALSE, 1)
      given(n) == IF n \in present THEN module(n) ELSE NoneVal
      names == present \cup (IF k > 0 THEN {"controlnet"} ELSE {})
  IN  [op |-> "__init__",
       text_encoder |-> given("text_encoder"),
       text_encoder_2 |-> given("text_encoder_2"),
       unet |-> given("unet"),
       vae_encoder |-> given("vae_encoder"),
       vae_decoder |-> given("vae_decoder"),
       controlnet |-> ListOrSingle([i \in 1..k |-> module(ControlNetDirNames[i])]),
       config |-> processors,
       tokenizer |-> Processor(processors, "tokenizer"),
       tokenizer_2 |-> Processor(processors, "tokenizer_2"),
       scheduler |-> Processor(processors, "scheduler"),
       feature_extractor |-> Processor(processors, "feature_extractor"),
       data_parallel_mode |-> "none",
       configs |-> [n \in names |->
                      IF n = "controlnet" THEN ListOrFirst([i \in 1..k |-> cfg]) ELSE cfg],
       neuron_configs |-> [n \in names |->
                             IF n = "controlnet"
                             THEN ListOrFirst([i \in 1..k |-> NeuronConfig(cfg)])
                             ELSE NeuronConfig(cfg)],
       model_save_dir |-> NoneVal,
       model_and_config_save_paths |-> save_paths]

\* The pipelines built with no save paths (None, the default, or an empty
\* dict), and the directories E and F as they may be before the save.
InitUnsaved ==
  /\ pc = "call"
  /\ hub = EmptyDict
  /\ ret = NoneVal
  /\ pipeline = NoneVal
  /\ \E optional \in SUBSET {"text_encoder_2", "vae_encoder"},
        k \in 0..MaxControlNets,
        processors \in SUBSET {"tokenizer", "tokenizer_2", "scheduler", "feature_extractor"},
        save_paths \in {NoneVal, EmptyDict} :
       call = InitArgs({"text_encoder", "unet", "vae_decoder"} \cup optional, k,
                       processors, save_paths)
  /\ fs \in {EmptyDict, <<"E">> :> DirEntry,
             ModelDir("E", {"unet"}, TRUE, <<"s", "d">>, <<>>, "true", FALSE, 1, 1)}

\* NeuronStableDiffusionPipelineBase(**arguments)
Construct ==
  /\ pc = "call"
  /\ call.op = "__init__"
  /\ ret' = PipelineInit(call)
  /\ pipeline' = ret'.pipe
  /\ pc' = "done"
  /\ UNCHANGED <<call, fs, hub>>

NextUnsaved == Construct \/ SavePretrained

SpecUnsaved == InitUnsaved /\ [][NextUnsaved]_vars

\* C12: _save_pretrained on a pipeline whose model_and_config_save_paths is
\* None returns without raising and leaves the file system as it was: no
\* directory or file is made under save_directory, not the tokenizers', the
\* scheduler's or the feature extractor's either, and no file is copied.
C12_NoSavePathsSavesNothing ==
  [][(SavePretrained /\ pipeline.model_and_config_save_paths = NoneVal)
       => /\ ret'.raised = "none"
          /\ ret'.copies = {}
          /\ fs' = fs]_vars

\* A pipeline without save paths that has a tokenizer, a scheduler and a
\* feature extractor, after a save.
C12_Witness ==
  /\ Returned("_save_pretrained")
  /\ call.self.model_and_config_save_paths = NoneVal
  /\ call.self.tokenizer.kind # "None"
  /\ call.self.scheduler.kind # "None"
  /\ call.self.feature_extractor.kind # "None"


-----------------------------------------------------------------------------
(* _from_pretrained on directories whose configs differ in inline_weights_to_neff *)

\* What a config may say of inline_weights_to_neff.
InlineValues == {"true", "false", "absent"}

\* A model directory where each config has its own inline_weights_to_neff:
\* a VAE encoder directory that may lack its compiled file, and a controlnet
\* directory or none.
InitInline ==
  /\ pc = "call"
  /\ hub = EmptyDict
  /\ ret = NoneVal
  /\ pipeline = NoneVal
  /\ \E mode \in {"None", "none", "unet", "all"},
        te \in InlineValues, un \in InlineValues, vd \in InlineValues,
        ve \in InlineValues, cn \in InlineValues \cup {"no directory"},
        veModel \in BOOLEAN :
       /\ call = [op |-> "_from_pretrained", model_id |-> "D",
                  config |-> {"tokenizer", "scheduler"}, preloaded |-> NoPreloaded,
                  model_save_dir |-> NoneVal, data_parallel_mode |-> mode]
       /\ fs = (<<"D">> :> DirEntry)
               @@ SubmodelDir("D", "text_encoder", TRUE, ModelConfig(<<>>, te, FALSE, 1))
               @@ SubmodelDir("D", "unet", TRUE, ModelConfig(<<"s", "d">>, un, FALSE, 2))
               @@ SubmodelDir("D", "vae_decoder", TRUE, ModelConfig(<<>>, vd, FALSE, 1))
               @@ SubmodelDir("D", "vae_encoder", veModel, ModelConfig(<<>>, ve, FALSE, 1))
               @@ (IF cn = "no directory" THEN EmptyDict
                   ELSE SubmodelDir("D", "controlnet_0", TRUE, ModelConfig(<<>>, cn, FALSE, 2)))

SpecInline == InitInline /\ [][NextFrom]_vars

\* The config files of the sub-model directories of `dir`.
ConfigFilesIn(dir) ==
  {p \in DOMAIN fs : Len(p) = 3 /\ p[1] = dir /\ p[3] = CONFIG_NAME /\ fs[p].kind = "config"}

\* Some config of the directory declares inline_weights_to_neff false.
SomeConfigNotInlined(dir) ==
  \E p \in ConfigFilesIn(dir) :
    /\ "inline_weights_to_neff" \in DOMAIN fs[p].neuron
    /\ ~fs[p].neuron["inline_weights_to_neff"]

\* The compiled modules a pipeline holds, as load_model returned them.
PipelineModules(pipe) ==
  {pipe[n].model : n \in {m \in SingleNames : pipe[m].kind # "None"}}
  \cup (CASE pipe.controlnet.kind = "None" -> {}
          [] pipe.controlnet.kind = "NeuronMultiControlNetModel" ->
               {pipe.controlnet.nets[i] : i \in 1..Len(pipe.controlnet.nets)}
          [] OTHER -> {pipe.controlnet.model})

\* C13: _from_pretrained asks load_model to move sub-models to a NeuronCore
\* (to_neuron=True) exactly when some config of the directory declares
\* inline_weights_to_neff false, a config without the field counting as true;
\* a module wrapped in DataParallel was loaded with to_neuron=False whatever
\* the flag, and a module not wrapped with the flag.
C13_ToNeuronIffSomeConfigNotInlined ==
  Returned("_from_pretrained") /\ ret.raised = "none" =>
    /\ ret.loaded_with.to_neuron <=> SomeConfigNotInlined(call.model_id)
    /\ \A mod \in PipelineModules(ret.pipe) :
         IF mod.kind = "DataParallel"
         THEN ~mod.module.to_neuron
         ELSE mod.to_neuron <=> SomeConfigNotInlined(call.model_id)
    /\ \A i \in 1..Len(ret.loads) :
         ret.loads[i].to_neuron => SomeConfigNotInlined(call.model_id)

\* Only the controlnet's config declares false: the text encoder is moved,
\* the U-Net in DataParallel is not.
C13_Witness ==
  /\ Returned("_from_pretrained")
  /\ ret.raised = "none"
  /\ \A p \in ConfigFilesIn("D") :
       p[2] # "controlnet_0" =>
         ("inline_weights_to_neff" \in DOMAIN fs[p].neuron =>
            fs[p].neuron["inline_weights_to_neff"])
  /\ \E p \in ConfigFilesIn("D") : "inline_weights_to_neff" \notin DOMAIN fs[p].neuron
  /\ ret.loaded_with.to_neuron
  /\ ret.pipe.unet.model.kind = "DataParallel"
  /\ ret.pipe.text_encoder.model.kind = "ScriptModule"
  /\ ret.pipe.text_encoder.model.to_neuron

\* Every config is without the field or declares true: nothing is moved.
C13_WitnessInlined ==
  /\ Returned("_from_pretrained")
  /\ ret.raised = "none"
  /\ ~SomeConfigNotInlined("D")
  /\ \E p \in ConfigFilesIn("D") : "inline_weights_to_neff" \notin DOMAIN fs[p].neuron
  /\ ~ret.loaded_with.to_neuron
  /\ ret.pipe.text_encoder.model.kind = "ScriptModule"


-----------------------------------------------------------------------------
(* utils/version_utils.py *)

\* Where the packages that can be imported are.
SitePackages == "site-packages"

\* `import name`: the module, or the exception the import raises. A package
\* that is not installed raises ModuleNotFoundError, one that is installed
\* and fails to load its own imports raises ImportError.
Import(files, name) ==
  IF <<SitePackages, name>> \notin DOMAIN files
  THEN [raised |-> "ModuleNotFoundError", module |-> NoneVal]
  ELSE IF files[<<SitePackages, name>>].kind = "broken package"
  THEN [raised |-> "ImportError", module |-> NoneVal]
  ELSE [raised |-> "none", module |-> files[<<SitePackages, name>>]]

MutCatchesNothing(exc) == FALSE

\* `except ImportError:` catches ImportError and its subclass
\* ModuleNotFoundError.
IsImportError(exc) == exc \in {"ImportError", "ModuleNotFoundError"}

\* What a function returns or raises.
Returns(value) == [raised |-> "none", value |-> value]

Raises(exc) == [raised |-> exc, value |-> NoneVal]

\* The body both functions share: import, ValueError on ImportError, else
\* the module's __version__.
VersionOf(files, name) ==
  LET imported == Import(files, name)
  IN  IF imported.raised = "none" THEN Returns(imported.module.version)
      ELSE IF IsImportError(imported.raised) THEN Raises("ValueError")
      ELSE Raises(imported.raised)

get_neuronxcc_version(files) == VersionOf(files, "neuronxcc")

get_neuroncc_version(files) == VersionOf(files, "neuroncc")

\* The versions a compiler package may have.
Versions == {"1.10.0", "1.24.0", "2.13.66", "2.14.227", "2.15.128"}

\* How a package may be: not installed, installed and failing to import, or
\* installed with a version.
PackageStates ==
  {NoneVal, [kind |-> "broken package"]}
    \cup {[kind |-> "package", version |-> v] : v \in Versions}

Installed(name, package) ==
  IF package = NoneVal THEN EmptyDict ELSE <<SitePackages, name>> :> package

InitVersions ==
  /\ pc = "call"
  /\ hub = EmptyDict
  /\ ret = NoneVal
  /\ pipeline = NoneVal
  /\ call = [op |-> "none"]
  /\ \E x \in PackageStates, c \in PackageStates :
       fs = Installed("neuronxcc", x) @@ Installed("neuroncc", c)

GetNeuronxccVersion ==
  /\ pc = "call"
  /\ call' = [op |-> "get_neuronxcc_version"]
  /\ ret' = get_neuronxcc_version(fs)
  /\ pc' = "done"
  /\ UNCHANGED <<fs, hub, pipeline>>

GetNeuronccVersion ==
  /\ pc = "call"
  /\ call' = [op |-> "get_neuroncc_version"]
  /\ ret' = get_neuroncc_version(fs)
  /\ pc' = "done"
  /\ UNCHANGED <<fs, hub, pipeline>>

NextVersions == GetNeuronxccVersion \/ GetNeuronccVersion

SpecVersions == InitVersions /\ [][NextVersions]_vars

\* What the caller of a version function must see for a package.
VersionOutcome(name) ==
  IF <<SitePackages, name>> \in DOMAIN fs /\ fs[<<SitePackages, name>>].kind = "package"
  THEN ret = [raised |-> "none", value |-> fs[<<SitePackages, name>>].version]
  ELSE ret.raised = "ValueError"

\* C14: get_neuronxcc_version returns neuronxcc.__version__ and
\* get_neuroncc_version returns neuroncc.__version__, each of its own
\* package; when the package cannot be imported the function raises
\* ValueError, never ImportError.
C14_VersionOrValueError ==
  /\ Returned("get_neuronxcc_version") => VersionOutcome("neuronxcc")
  /\ Returned("get_neuroncc_version") => VersionOutcome("neuroncc")
  /\ pc = "done" /\ call.op \in {"get_neuronxcc_version", "get_neuroncc_version"} =>
       ~IsImportError(ret.raised)

\* neuroncc is asked for while only neuronxcc is installed.
C14_Witness ==
  /\ Returned("get_neuroncc_version")
  /\ <<SitePackages, "neuronxcc">> \in DOMAIN fs
  /\ fs[<<SitePackages, "neuronxcc">>].kind = "package"
  /\ <<SitePackages, "neuroncc">> \notin DOMAIN fs
  /\ ret.raised = "ValueError"

\* Both are installed, with different versions, and neuronxcc's is returned.
C14_WitnessVersion ==
  /\ Returned("get_neuronxcc_version")
  /\ <<SitePackages, "neuroncc">> \in DOMAIN fs
  /\ fs[<<SitePackages, "neuroncc">>].kind = "package"
  /\ ret.raised = "none"
  /\ ret.value # fs[<<SitePackages, "neuroncc">>].version


-----------------------------------------------------------------------------
(* Properties of the cache key of _export *)

\* The VAE configurations an export may have.
VaeNames == {<<"v", "1">>, <<"v", "2">>}

\* The values of auto_cast_type.
CastTypes == {"bf16", "fp16"}

\* C15: the compilation configs the cache key is made of hold no VAE
\* sub-model, so the key _export looks up is the key of the same export with
\* any other VAE configuration, and an artifact cached by such an export is
\* a hit.
C15_VaeNotInCacheKey ==
  Returned("_export") /\ ret.lookups # <<>> =>
    /\ DOMAIN ret.lookups[1].hash.config \cap {"vae_encoder", "vae_decoder"} = {}
    /\ {"unet", "text_encoder"} \subseteq DOMAIN ret.lookups[1].hash.config
    /\ \A v \in VaeNames :
         /\ CacheKey([call EXCEPT !.vae_name = v]) = ret.lookups[1]
         /\ hub = Cached([call EXCEPT !.vae_name = v]) => ret.compiles = <<>>

\* An export finds the artifact of an export with another VAE.
C15_Witness ==
  /\ Returned("_export")
  /\ ret.lookups # <<>>
  /\ ret.lookups[1] \in DOMAIN hub
  /\ hub[ret.lookups[1]][<<CacheDir, "vae_decoder", CONFIG_NAME>>].name_or_path
       # call.vae_name
  /\ ret.compiles = <<>>
  /\ ret.raised = "none"

\* The auto_cast_type _export works with.
NormalizedCastType ==
  IF call.auto_cast = "None" THEN "None" ELSE call.auto_cast_type

\* C16: with auto_cast None the auto_cast_type in every compilation config
\* of the cache key and in the call of main_export is None whatever the
\* caller passed, and the compilation configs are those of the same export
\* with any other auto_cast_type; with another auto_cast the caller's
\* auto_cast_type is in both, unchanged.
C16_CastTypeNormalized ==
  Returned("_export") =>
    /\ \A i \in 1..Len(ret.compiles) :
         ret.compiles[i].compiler_kwargs =
           [auto_cast |-> call.auto_cast, auto_cast_type |-> NormalizedCastType]
    /\ \A i \in 1..Len(ret.lookups) :
         \A n \in DOMAIN ret.lookups[i].hash.config :
           ret.lookups[i].hash.config[n].compiler_kwargs =
             [auto_cast |-> call.auto_cast, auto_cast_type |-> NormalizedCastType]
    /\ \A t \in CastTypes \ {call.auto_cast_type} :
         (CompilationConfigs([call EXCEPT !.auto_cast_type = t]) = CompilationConfigs(call))
           <=> call.auto_cast = "None"

\* auto_cast is None, the caller passed fp16 and the artifact of an export
\* that passed bf16 is found.
C16_Witness ==
  /\ Returned("_export")
  /\ call.auto_cast = "None"
  /\ call.auto_cast_type = "fp16"
  /\ hub = Cached([call EXCEPT !.auto_cast_type = "bf16"])
  /\ ret.lookups # <<>>
  /\ ret.lookups[1].hash.config["unet"].compiler_kwargs.auto_cast_type = "None"
  /\ ret.compiles = <<>>

\* auto_cast is matmul: the artifact of the other auto_cast_type is not
\* found, and main_export gets the caller's.
C16_WitnessCast ==
  /\ Returned("_export")
  /\ call.auto_cast = "matmul"
  /\ call.auto_cast_type = "fp16"
  /\ hub = Cached([call EXCEPT !.auto_cast_type = "bf16"])
  /\ ret.lookups # <<>>
  /\ Len(ret.compiles) = 1
  /\ ret.compiles[1].compiler_kwargs.auto_cast_type = "fp16"


-----------------------------------------------------------------------------
(* NeuronModelUnet.forward *)

\* The most down-block residuals a caller passes.
MaxDownBlocks == 2

\* A tensor: what it holds, its dtype and its shape.
Tensor(name, dtype, shape) ==
  [kind |-> "Tensor", name |-> name, dtype |-> dtype, shape |-> shape]

\* tensor.float()
Float(t) == [t EXCEPT !.dtype = "float32"]

\* Whether tensor.expand((n,)) is allowed: a scalar, one element, or n
\* elements already.
Expandable(t, n) == t.shape \in {<<>>, <<1>>, <<n>>}

\* tensor.expand((n,))
Expand(t, n) == [t EXCEPT !.shape = <<n>>]

\* dict.pop(key, None), the value
PopOrNone(d, key) == IF key \in DOMAIN d THEN d[key] ELSE NoneVal

\* `(x,)` if x is not None, else `()`
IfGiven(x) == IF x = NoneVal THEN <<>> ELSE <<x>>

\* The down-block residuals before the mid-block residual.
MutDownBeforeMid(sample, timestep, encoder_hidden_states, added_cond_kwargs, timestep_cond, down_block_additional_residuals, mid_block_additional_residual) ==
  <<sample, Expand(Float(timestep), sample.shape[1]), encoder_hidden_states>>
    \o IfGiven(timestep_cond)
    \o (IF down_block_additional_residuals = NoneVal THEN <<>>
        ELSE down_block_additional_residuals.items)
    \o IfGiven(mid_block_additional_residual)
    \o (IF Falsy(added_cond_kwargs) THEN <<>>
        ELSE <<PopOrNone(added_cond_kwargs, "text_embeds"),
               PopOrNone(added_cond_kwargs, "time_ids")>>)

\* `inputs` of NeuronModelUnet.forward
UnetInputs(sample, timestep, encoder_hidden_states, added_cond_kwargs, timestep_cond, down_block_additional_residuals, mid_block_additional_residual) ==
  <<sample, Expand(Float(timestep), sample.shape[1]), encoder_hidden_states>>
    \o IfGiven(timestep_cond)
    \o IfGiven(mid_block_additional_residual)
    \o (IF down_block_additional_residuals = NoneVal THEN <<>>
        ELSE down_block_additional_residuals.items)
    \o (IF Falsy(added_cond_kwargs) THEN <<>>
        ELSE <<PopOrNone(added_cond_kwargs, "text_embeds"),
               PopOrNone(added_cond_kwargs, "time_ids")>>)

\* What a forward leaves: the exception if any, the positional inputs of
\* each call of the compiled module, and what it returns.
ForwardResult(raised, called_with, returns) ==
  [raised |-> raised, called_with |-> called_with, returns |-> returns]

\* What the compiled module returns for a tuple of inputs.
Outputs(inputs) == [kind |-> "outputs", of |-> inputs]

\* NeuronModelUnet.forward
UnetForward(a) ==
  IF ~Expandable(a.timestep, a.sample.shape[1])
  THEN ForwardResult("RuntimeError", <<>>, NoneVal)
  ELSE LET inputs == UnetInputs(a.sample, a.timestep, a.encoder_hidden_states,
                                a.added_cond_kwargs, a.timestep_cond,
                                a.down_block_additional_residuals,
                                a.mid_block_additional_residual)
       IN  ForwardResult("none", <<inputs>>, Outputs(inputs))

\* The tuples of down-block residuals: up to MaxDownBlocks tensors, in any
\* order and with repeats.
DownBlockTuples ==
  UNION {[1..n -> {Tensor("down", "float32", <<i>>) : i \in 1..MaxDownBlocks}] :
           n \in 0..MaxDownBlocks}

\* The added_cond_kwargs a caller passes: None, empty, or a dict with some of
\* its keys.
AddedCondKwargs ==
  {NoneVal, EmptyDict,
   [text_embeds |-> Tensor("text_embeds", "float32", <<2>>),
    time_ids |-> Tensor("time_ids", "float32", <<2>>)],
   [text_embeds |-> Tensor("text_embeds", "float32", <<2>>)],
   [time_ids |-> Tensor("time_ids", "float32", <<2>>)],
   [image_embeds |-> Tensor("image_embeds", "float32", <<2>>)]}

InitUnet ==
  /\ pc = "call"
  /\ hub = EmptyDict
  /\ fs = EmptyDict
  /\ ret = NoneVal
  /\ pipeline = NoneVal
  /\ \E batch \in {1, 2}, tshape \in {<<>>, <<1>>, <<2>>, <<3>>},
        tdtype \in {"int64", "float32"}, withCond \in BOOLEAN, withMid \in BOOLEAN,
        down \in {NoneVal} \cup {PyList(d) : d \in DownBlockTuples},
        added \in AddedCondKwargs :
       call = [op |-> "NeuronModelUnet.forward",
               sample |-> Tensor("sample", "float32", <<batch>>),
               timestep |-> Tensor("timestep", tdtype, tshape),
               encoder_hidden_states |-> Tensor("encoder_hidden_states", "float32", <<batch>>),
               added_cond_kwargs |-> added,
               timestep_cond |->
                 IF withCond THEN Tensor("timestep_cond", "float32", <<batch>>) ELSE NoneVal,
               down_block_additional_residuals |-> down,
               mid_block_additional_residual |->
                 IF withMid THEN Tensor("mid", "float32", <<batch>>) ELSE NoneVal]

ForwardUnet ==
  /\ pc = "call"
  /\ call.op = "NeuronModelUnet.forward"
  /\ ret' = UnetForward(call)
  /\ pc' = "done"
  /\ UNCHANGED <<call, fs, hub, pipeline>>

NextUnet == ForwardUnet

SpecUnet == InitUnet /\ [][NextUnet]_vars


\* 1 if the optional argument is given, 0 if it is None.
Given(x) == IF x = NoneVal THEN 0 ELSE 1

\* How many down-block residuals the call passes.
DownCount ==
  IF call.down_block_additional_residuals = NoneVal THEN 0
  ELSE Len(call.down_block_additional_residuals.items)

\* added_cond_kwargs is neither None nor empty.
HasAddedCond ==
  call.added_cond_kwargs # NoneVal /\ DOMAIN call.added_cond_kwargs # {}

\* C17: NeuronModelUnet.forward calls the compiled module once, with sample,
\* the timestep as float expanded to the sample's batch size, and
\* encoder_hidden_states, then timestep_cond if given, then
\* mid_block_additional_residual if given, then the down-block residuals in
\* index order if given, then text_embeds and time_ids if added_cond_kwargs
\* is not empty; an optional argument that is None adds no input.
C17_UnetInputOrder ==
  Returned("NeuronModelUnet.forward") /\ ret.raised = "none" =>
    /\ Len(ret.called_with) = 1
    /\ LET inputs == ret.called_with[1]
           afterCond == 3 + Given(call.timestep_cond)
           afterMid == afterCond + Given(call.mid_block_additional_residual)
           afterDown == afterMid + DownCount
       IN  /\ Len(inputs) = afterDown + (IF HasAddedCond THEN 2 ELSE 0)
           /\ inputs[1] = call.sample
           /\ inputs[2] = Tensor("timestep", "float32", <<call.sample.shape[1]>>)
           /\ inputs[3] = call.encoder_hidden_states
           /\ call.timestep_cond # NoneVal => inputs[4] = call.timestep_cond
           /\ call.mid_block_additional_residual # NoneVal =>
                inputs[afterMid] = call.mid_block_additional_residual
           /\ \A i \in 1..DownCount :
                inputs[afterMid + i] = call.down_block_additional_residuals.items[i]
           /\ HasAddedCond =>
                /\ inputs[afterDown + 1] = PopOrNone(call.added_cond_kwargs, "text_embeds")
                /\ inputs[afterDown + 2] = PopOrNone(call.added_cond_kwargs, "time_ids")

\* Every optional argument is given, with two different residuals.
C17_Witness ==
  /\ Returned("NeuronModelUnet.forward")
  /\ ret.raised = "none"
  /\ call.timestep_cond # NoneVal
  /\ call.mid_block_additional_residual # NoneVal
  /\ DownCount = 2
  /\ call.down_block_additional_residuals.items[1]
       # call.down_block_additional_residuals.items[2]
  /\ DOMAIN call.added_cond_kwargs = {"text_embeds", "time_ids"}
  /\ call.timestep.shape = <<>>
  /\ call.sample.shape = <<2>>
  /\ Len(ret.called_with[1]) = 9

\* No optional argument is given: three inputs.
C17_WitnessBare ==
  /\ Returned("NeuronModelUnet.forward")
  /\ ret.raised = "none"
  /\ call.timestep_cond = NoneVal
  /\ call.mid_block_additional_residual = NoneVal
  /\ call.down_block_additional_residuals = NoneVal
  /\ call.added_cond_kwargs = NoneVal
  /\ Len(ret.called_with[1]) = 3


-----------------------------------------------------------------------------
(* NeuronModelTextEncoder.forward *)

\* torch.ones_like(attention_mask); a mask is the sequence of its elements.
OnesLike(mask) == [i \in DOMAIN mask |-> 1]

\* The mask is taken as it is.
MutMaskUnchecked(attention_mask) == TRUE

\* torch.equal(torch.ones_like(attention_mask), attention_mask)
MaskAllOnes(attention_mask) == OnesLike(attention_mask.values) = attention_mask.values

\* Python's `a or b` on True, False and None, written "True", "False", "None".
PyOr(a, b) == IF a = "True" THEN a ELSE b

\* self.config.neuron.get("output_hidden_states")
NeuronGet(neuron, key) == IF key \in DOMAIN neuron THEN neuron[key] ELSE "None"

\* (self.config.output_hidden_states or
\*  self.config.neuron.get("output_hidden_states")) == output_hidden_states,
\* evaluated when output_hidden_states is truthy
HiddenStatesCompiled(config, output_hidden_states) ==
  PyOr(config.output_hidden_states, NeuronGet(config.neuron, "output_hidden_states"))
    = output_hidden_states

\* input_ids.to(torch.long)
ToLong(t) == [t EXCEPT !.dtype = "int64"]

\* NeuronModelTextEncoder.forward
TextEncoderForward(self, a) ==
  IF a.attention_mask # NoneVal /\ ~MaskAllOnes(a.attention_mask)
  THEN ForwardResult("AssertionError", <<>>, NoneVal)
  ELSE IF a.output_hidden_states = "True"
          /\ ~HiddenStatesCompiled(self.config, a.output_hidden_states)
  THEN ForwardResult("AssertionError", <<>>, NoneVal)
  ELSE LET inputs == <<ToLong(a.input_ids)>>
       IN  ForwardResult("none", <<inputs>>,
                         IF a.return_dict = "True"
                         THEN [kind |-> "ModelOutput", of |-> Outputs(inputs)]
                         ELSE Outputs(inputs))

\* The attention masks a caller passes.
AttentionMasks ==
  {NoneVal} \cup {[kind |-> "Tensor", values |-> v] :
                    v \in {<<>>, <<1, 1>>, <<1, 0>>, <<0, 0>>, <<1, 1, 1>>, <<1, 1, 0>>}}

\* The text encoder configs: output_hidden_states of the model config, and
\* of its `neuron` dict, where it may be missing.
TextEncoderConfigs ==
  {[output_hidden_states |-> o, neuron |-> n] :
     o \in {"True", "False"},
     n \in {EmptyDict} \cup {[output_hidden_states |-> x] : x \in {"True", "False"}}}

InitTextEncoder ==
  /\ pc = "call"
  /\ hub = EmptyDict
  /\ fs = EmptyDict
  /\ ret = NoneVal
  /\ \E config \in TextEncoderConfigs :
       pipeline = [kind |-> "NeuronModelTextEncoder", config |-> config]
  /\ \E dtype \in {"int32", "int64"}, mask \in AttentionMasks,
        ohs \in {"None", "False", "True"}, return_dict \in {"None", "False", "True"} :
       call = [op |-> "NeuronModelTextEncoder.forward",
               input_ids |-> Tensor("input_ids", dtype, <<1>>),
               attention_mask |-> mask,
               output_hidden_states |-> ohs,
               return_dict |-> return_dict]

ForwardTextEncoder ==
  /\ pc = "call"
  /\ call.op = "NeuronModelTextEncoder.forward"
  /\ ret' = TextEncoderForward(pipeline, call)
  /\ pc' = "done"
  /\ UNCHANGED <<call, fs, hub, pipeline>>

NextTextEncoder == ForwardTextEncoder

SpecTextEncoder == InitTextEncoder /\ [][NextTextEncoder]_vars

\* The mask given has an element that is not one.
MaskNotAllOnes ==
  /\ call.attention_mask # NoneVal
  /\ \E i \in DOMAIN call.attention_mask.values : call.attention_mask.values[i] # 1

\* Hidden states are asked of a model compiled without them.
HiddenStatesNotCompiled ==
  /\ call.output_hidden_states = "True"
  /\ pipeline.config.output_hidden_states # "True"
  /\ \/ "output_hidden_states" \notin DOMAIN pipeline.config.neuron
     \/ pipeline.config.neuron["output_hidden_states"] # "True"

\* C18: NeuronModelTextEncoder.forward raises AssertionError, without
\* calling the compiled module, when an attention_mask is given that is not
\* all ones or when output_hidden_states is asked of a model compiled
\* without hidden states; otherwise it calls the compiled module once, with
\* input_ids as its only input.
C18_TextEncoderAsserts ==
  Returned("NeuronModelTextEncoder.forward") =>
    IF MaskNotAllOnes \/ HiddenStatesNotCompiled
    THEN ret.raised = "AssertionError" /\ ret.called_with = <<>>
    ELSE /\ ret.raised = "none"
         /\ ret.called_with = <<<<Tensor("input_ids", "int64", <<1>>)>>>>

\* A mask with a zero, on a model compiled with hidden states.
C18_Witness ==
  /\ Returned("NeuronModelTextEncoder.forward")
  /\ MaskNotAllOnes
  /\ ~HiddenStatesNotCompiled
  /\ call.output_hidden_states = "True"
  /\ ret.raised = "AssertionError"

\* Hidden states asked of a model compiled without, with a mask of ones.
C18_WitnessHiddenStates ==
  /\ Returned("NeuronModelTextEncoder.forward")
  /\ HiddenStatesNotCompiled
  /\ call.attention_mask # NoneVal
  /\ ~MaskNotAllOnes
  /\ ret.raised = "AssertionError"

\* A mask of ones and hidden states the model was compiled with: the module
\* is called.
C18_WitnessCalled ==
  /\ Returned("NeuronModelTextEncoder.forward")
  /\ call.attention_mask # NoneVal
  /\ call.output_hidden_states = "True"
  /\ ret.raised = "none"
  /\ Len(ret.called_with) = 1


-----------------------------------------------------------------------------
(* NeuronMultiControlNetModel.forward *)

\* The least of three lengths: where zip stops.
Shortest(a, b, c) ==
  LET ab == IF a < b THEN a ELSE b
  IN  IF ab < c THEN ab ELSE c

\* The current residuals in place of the sums.
MutTakesCurrent(samples_prev, samples_curr) ==
  [j \in 1..Shortest(Len(samples_prev), Len(samples_curr), Len(samples_curr)) |->
     samples_curr[j]]

\* [prev + curr for prev, curr in zip(down_block_res_samples, down_samples)];
\* a residual is the number it holds.
ZipAdd(samples_prev, samples_curr) ==
  [j \in 1..Shortest(Len(samples_prev), Len(samples_curr), Len(samples_curr)) |->
     samples_prev[j] + samples_curr[j]]

RECURSIVE MergeSamples(_)
\* The residuals after the loop over the outputs of the controlnets that
\* were run, in order: the first as it is, each later one added.
MergeSamples(outs) ==
  IF Len(outs) = 1 THEN [down |-> outs[1].down, mid |-> outs[1].mid]
  ELSE LET prev == MergeSamples(SubSeq(outs, 1, Len(outs) - 1))
           curr == outs[Len(outs)]
       IN  [down |-> ZipAdd(prev.down, curr.down), mid |-> prev.mid + curr.mid]

\* NeuronMultiControlNetModel.forward: a conditioning_scale that is a float
\* cannot be zipped, and with no iteration the residuals are never bound.
MultiControlNetForward(self, a) ==
  IF a.conditioning_scale.kind # "list" THEN ForwardResult("TypeError", <<>>, NoneVal)
  ELSE
    LET n == Shortest(Len(a.controlnet_cond.items), Len(a.conditioning_scale.items),
                      Len(self.nets))
        called == [i \in 1..n |->
                     [net |-> self.nets[i].id,
                      inputs |-> <<a.sample, a.timestep, a.encoder_hidden_states,
                                   a.controlnet_cond.items[i],
                                   a.conditioning_scale.items[i]>>]]
        merged == MergeSamples([i \in 1..n |-> self.nets[i].returns])
    IN  IF n = 0 THEN ForwardResult("UnboundLocalError", called, NoneVal)
        ELSE ForwardResult("none", called,
               IF a.return_dict
               THEN [kind |-> "ControlNetOutput",
                     down_block_res_samples |-> merged.down,
                     mid_block_res_sample |-> merged.mid]
               ELSE [kind |-> "tuple",
                     down_block_res_samples |-> merged.down,
                     mid_block_res_sample |-> merged.mid])

\* The i-th compiled controlnet and what it returns for its inputs: `blocks`
\* down-block residuals and a mid-block residual.
CompiledControlNet(i, blocks, mid) ==
  [kind |-> "ScriptModule", id |-> i,
   returns |-> [down |-> [j \in 1..blocks |-> 10 * i + j], mid |-> mid]]

InitMultiControlNet ==
  /\ pc = "call"
  /\ hub = EmptyDict
  /\ fs = EmptyDict
  /\ ret = NoneVal
  /\ \E n \in 1..MaxControlNets :
       \E blocks \in [1..n -> 1..MaxDownBlocks], mids \in [1..n -> {1, 2}] :
         pipeline = [kind |-> "NeuronMultiControlNetModel",
                     nets |-> [i \in 1..n |-> CompiledControlNet(i, blocks[i], mids[i])]]
  /\ \E images \in 0..(MaxControlNets + 1), scales \in 0..(MaxControlNets + 1),
        scaleIsFloat \in BOOLEAN, return_dict \in BOOLEAN, guess_mode \in BOOLEAN :
       call = [op |-> "NeuronMultiControlNetModel.forward",
               sample |-> Tensor("sample", "float32", <<2>>),
               timestep |-> Tensor("timestep", "int64", <<>>),
               encoder_hidden_states |-> Tensor("encoder_hidden_states", "float32", <<2>>),
               controlnet_cond |-> PyList([i \in 1..images |->
                                             Tensor("image", "float32", <<i>>)]),
               conditioning_scale |-> IF scaleIsFloat THEN [kind |-> "float"]
                                      ELSE PyList([i \in 1..scales |-> i]),
               guess_mode |-> guess_mode,
               return_dict |-> return_dict]

ForwardMultiControlNet ==
  /\ pc = "call"
  /\ call.op = "NeuronMultiControlNetModel.forward"
  /\ ret' = MultiControlNetForward(pipeline, call)
  /\ pc' = "done"
  /\ UNCHANGED <<call, fs, hub, pipeline>>

NextMultiControlNet == ForwardMultiControlNet

SpecMultiControlNet == InitMultiControlNet /\ [][NextMultiControlNet]_vars


RECURSIVE SumTo(_, _)
\* f[1] + ... + f[n].
SumTo(f, n) == IF n = 0 THEN 0 ELSE SumTo(f, n - 1) + f[n]

\* The call gives a list of at least one image and one scale per controlnet.
InputsForEveryNet ==
  /\ call.conditioning_scale.kind = "list"
  /\ Len(call.controlnet_cond.items) >= Len(pipeline.nets)
  /\ Len(call.conditioning_scale.items) >= Len(pipeline.nets)

\* The number of down-block residuals that every one of the first n nets returns.
CommonBlocks(n) ==
  {j \in 1..MaxDownBlocks : \A i \in 1..n : j <= Len(pipeline.nets[i].returns.down)}

\* C19: with an image and a scale for each of its N controlnets, forward runs
\* every controlnet, the i-th on the same sample, timestep and
\* encoder_hidden_states with the i-th image and the i-th scale, and returns
\* down-block residuals whose j-th element is the sum over the N nets of their
\* j-th down-block residual and a mid-block residual that is the sum of their
\* mid-block residuals. With fewer images or scales the same holds of the
\* nets that zip reaches.
C19_MultiControlNetSumsResiduals ==
  Returned("NeuronMultiControlNetModel.forward") =>
    /\ InputsForEveryNet =>
         ret.raised = "none" /\ Len(ret.called_with) = Len(pipeline.nets)
    /\ ret.raised = "none" =>
         LET n == Len(ret.called_with)
             down == ret.returns.down_block_res_samples
         IN  /\ n >= 1
             /\ \A i \in 1..n :
                  /\ ret.called_with[i].net = pipeline.nets[i].id
                  /\ ret.called_with[i].inputs =
                       <<call.sample, call.timestep, call.encoder_hidden_states,
                         call.controlnet_cond.items[i],
                         call.conditioning_scale.items[i]>>
             /\ DOMAIN down = CommonBlocks(n)
             /\ \A j \in DOMAIN down :
                  down[j] = SumTo([i \in 1..n |-> pipeline.nets[i].returns.down[j]], n)
             /\ ret.returns.mid_block_res_sample =
                  SumTo([i \in 1..n |-> pipeline.nets[i].returns.mid], n)

\* Two controlnets with two residuals each were both run and their residuals added.
C19_Witness ==
  /\ Returned("NeuronMultiControlNetModel.forward")
  /\ InputsForEveryNet
  /\ Len(pipeline.nets) = MaxControlNets
  /\ Len(ret.called_with) = MaxControlNets
  /\ Len(ret.returns.down_block_res_samples) = MaxDownBlocks
  /\ ret.returns.mid_block_res_sample >= MaxControlNets

\* Fewer images than controlnets: the last controlnet is not run.
C19_WitnessTruncated ==
  /\ Returned("NeuronMultiControlNetModel.forward")
  /\ ret.raised = "none"
  /\ Len(ret.called_with) < Len(pipeline.nets)

\* No image at all: the residuals are never bound.
C19_WitnessUnbound ==
  /\ Returned("NeuronMultiControlNetModel.forward")
  /\ ret.raised = "UnboundLocalError"


-----------------------------------------------------------------------------
(* The controlnet component of a loaded pipeline *)

\* Model directories with up to MaxControlNets controlnet directories, each
\* with its config and with or without its compiled file; every config of a
\* directory has the same dynamic_batch_size.
InitControlNets ==
  /\ pc = "call"
  /\ hub = EmptyDict
  /\ ret = NoneVal
  /\ pipeline = NoneVal
  /\ \E mode \in {"none", "unet", "all", "None"}, k \in 0..MaxControlNets,
        optional \in SUBSET {"vae_encoder", "text_encoder_2"},
        inline \in {"true", "false"}, dyn \in BOOLEAN :
       \E cn \in [1..k -> BOOLEAN] :
         /\ call = [op |-> "_from_pretrained", model_id |-> "D",
                    config |-> {"tokenizer", "scheduler"}, preloaded |-> NoPreloaded,
                    model_save_dir |-> NoneVal, data_parallel_mode |-> mode]
         /\ fs = ModelDir("D", {"text_encoder", "unet", "vae_decoder"} \cup optional,
                          TRUE, <<"s", "d">>, cn, inline, dyn, 2, 1)

SpecControlNets == InitControlNets /\ [][NextFrom]_vars

\* The compiled controlnet files of the model directory.
ControlNetFilesFound ==
  {p \in {ModelPath(call.model_id, d) : d \in ControlNetDirs(fs, call.model_id)} :
     IsFile(fs, p)}

\* The controlnet config files of the model directory.
ControlNetConfigsFound ==
  {p \in {ConfigPath(call.model_id, d) : d \in ControlNetDirs(fs, call.model_id)} :
     IsFile(fs, p)}

\* The file a loaded module was loaded from.
ModuleFile(m) == IF m.kind = "DataParallel" THEN m.module.path ELSE m.path

\* The controlnet component is the one the claim gives for the number of
\* compiled controlnet files.
ControlNetByFileCount(pipe) ==
  LET n == Cardinality(ControlNetFilesFound)
  IN  /\ n = 0 => pipe.controlnet = NoneVal
      /\ n = 1 =>
           /\ pipe.controlnet.kind = "NeuronControlNetModel"
           /\ pipe.controlnet.model.kind \in {"ScriptModule", "DataParallel"}
           /\ ModuleFile(pipe.controlnet.model) \in ControlNetFilesFound
      /\ n >= 2 =>
           /\ pipe.controlnet.kind = "NeuronMultiControlNetModel"
           /\ Len(pipe.controlnet.nets) = n
           /\ {ModuleFile(pipe.controlnet.nets[i]) : i \in 1..n} = ControlNetFilesFound

\* Every config of the directory has dynamic_batch_size true.
EveryConfigDynamic ==
  \A p \in DOMAIN fs :
    fs[p].kind = "config" => fs[p].neuron["dynamic_batch_size"]

\* C20: _from_pretrained gives a pipeline whose controlnet is None when the
\* directory has no compiled controlnet file, a NeuronControlNetModel around
\* the single module when it has one, and a NeuronMultiControlNetModel with
\* N nets when it has N >= 2.
C20_ControlNetByFileCount ==
  Returned("_from_pretrained") =>
    /\ pipeline.kind = "pipeline"
    /\ ControlNetByFileCount(pipeline)

\* Whenever _from_pretrained does build the pipeline, its controlnet is the
\* one the claim gives.
ControlNetByFileCountUnlessRaised ==
  Returned("_from_pretrained") /\ ret.raised = "none" =>
    /\ pipeline.kind = "pipeline"
    /\ ControlNetByFileCount(pipeline)

\* _from_pretrained raises exactly when two or more controlnet configs are
\* read and every config has dynamic_batch_size true, and then with the
\* AttributeError of __init__.
RaisesOnDynamicControlNetList ==
  Returned("_from_pretrained") =>
    /\ ret.raised # "none" <=>
         Cardinality(ControlNetConfigsFound) >= 2 /\ EveryConfigDynamic
    /\ ret.raised \in {"none", "AttributeError"}

\* Two compiled controlnets become a NeuronMultiControlNetModel of two nets.
MultiControlNetLoaded ==
  /\ Returned("_from_pretrained")
  /\ ret.raised = "none"
  /\ Cardinality(ControlNetFilesFound) = MaxControlNets
  /\ pipeline.controlnet.kind = "NeuronMultiControlNetModel"

\* Two controlnet directories of which one has its compiled file.
SingleControlNetOfTwoDirs ==
  /\ Returned("_from_pretrained")
  /\ ret.raised = "none"
  /\ Cardinality(ControlNetFilesFound) = 1
  /\ Cardinality(ControlNetConfigsFound) = 2
  /\ pipeline.controlnet.kind = "NeuronControlNetModel"

\* Two compiled controlnets with dynamic batch size: no pipeline.
DynamicMultiControlNetRaises ==
  /\ Returned("_from_pretrained")
  /\ Cardinality(ControlNetFilesFound) = 2
  /\ ret.raised = "AttributeError"


-----------------------------------------------------------------------------
(* num_images_per_prompt *)

\* The largest compiled batch size that is tried.
MaxBatchSize == 4

\* The model directory with another batch size in the config of text_encoder_2.
WithBatchSize2(files, dir, te2_bs) ==
  LET p == <<dir, "text_encoder_2", CONFIG_NAME>>
  IN  IF p \in DOMAIN files
      THEN [files EXCEPT ![p] = ModelConfig(<<>>, "true", FALSE, te2_bs)]
      ELSE files

\* Either a model directory whose U-Net and text encoders were compiled with
\* any batch sizes, each text encoder there or not, to load; or a pipeline to
\* export with batch_size b and num_images_per_prompt n.
InitBatchSize ==
  /\ pc = "call"
  /\ ret = NoneVal
  /\ pipeline = NoneVal
  /\ hub = EmptyDict
  /\ \/ \E encoders \in SUBSET {"text_encoder", "text_encoder_2"}, mode \in {"none", "all"},
           unet_bs \in 1..MaxBatchSize, te_bs \in 1..MaxBatchSize,
           te2_bs \in 1..MaxBatchSize :
          /\ call = [op |-> "_from_pretrained", model_id |-> "D",
                     config |-> {"tokenizer", "scheduler"}, preloaded |-> NoPreloaded,
                     model_save_dir |-> NoneVal, data_parallel_mode |-> mode]
          /\ fs = WithBatchSize2(
                    ModelDir("D", {"unet", "vae_decoder"} \cup encoders, TRUE,
                             <<"s", "d">>, <<>>, "true", FALSE, unet_bs, te_bs),
                    "D", te2_bs)
     \/ \E arch \in {"sd", "sdxl"}, controlnets \in 0..MaxControlNets,
           shape \in ExportShapes, disable \in BOOLEAN, dyn \in BOOLEAN :
          /\ call = ExportArgs(arch, <<"s", "d">>, <<"v", "1">>, controlnets, shape,
                               disable, TRUE, "none", "None", "bf16", dyn)
          /\ fs = EmptyDict

NextBatchSize == FromPretrained \/ Export

SpecBatchSize == InitBatchSize /\ [][NextBatchSize]_vars

\* q is numerator // denominator for positive batch sizes.
IsFloorQuotient(q, numerator, denominator) ==
  q * denominator <= numerator /\ numerator < (q + 1) * denominator

\* C21: a pipeline's num_images_per_prompt is the U-Net's compiled batch size
\* integer-divided by that of text_encoder when text_encoder has a neuron
\* config, otherwise by that of text_encoder_2 when it has one, otherwise 1;
\* and a pipeline exported with batch_size b and num_images_per_prompt n
\* reports n.
C21_NumImagesPerPrompt ==
  pc = "done" /\ ret.raised = "none" =>
    LET nc == pipeline.neuron_configs
        n == pipeline.num_images_per_prompt
    IN  /\ "text_encoder" \in DOMAIN nc =>
             IsFloorQuotient(n, nc["unet"].batch_size, nc["text_encoder"].batch_size)
        /\ "text_encoder" \notin DOMAIN nc /\ "text_encoder_2" \in DOMAIN nc =>
             IsFloorQuotient(n, nc["unet"].batch_size, nc["text_encoder_2"].batch_size)
        /\ "text_encoder" \notin DOMAIN nc /\ "text_encoder_2" \notin DOMAIN nc => n = 1
        /\ call.op = "_export" => n = call.num_images_per_prompt

\* Both text encoders, compiled with different batch sizes that give
\* different quotients, neither dividing the U-Net's batch size evenly.
C21_Witness ==
  /\ Returned("_from_pretrained")
  /\ ret.raised = "none"
  /\ {"text_encoder", "text_encoder_2"} \subseteq DOMAIN pipeline.neuron_configs
  /\ pipeline.neuron_configs["unet"].batch_size = 4
  /\ pipeline.neuron_configs["text_encoder"].batch_size = 3
  /\ pipeline.neuron_configs["text_encoder_2"].batch_size = 1
  /\ pipeline.num_images_per_prompt = 1

\* Only the second text encoder has a neuron config.
C21_WitnessTextEncoder2 ==
  /\ Returned("_from_pretrained")
  /\ ret.raised = "none"
  /\ "text_encoder" \notin DOMAIN pipeline.neuron_configs
  /\ "text_encoder_2" \in DOMAIN pipeline.neuron_configs
  /\ pipeline.num_images_per_prompt = 2

\* No text encoder has a neuron config.
C21_WitnessNoTextEncoder ==
  /\ Returned("_from_pretrained")
  /\ ret.raised = "none"
  /\ DOMAIN pipeline.neuron_configs \cap {"text_encoder", "text_encoder_2"} = {}
  /\ pipeline.neuron_configs["unet"].batch_size > 1
  /\ pipeline.num_images_per_prompt = 1

\* An export with batch_size 2 and num_images_per_prompt 2.
C21_WitnessExported ==
  /\ Returned("_export")
  /\ ret.raised = "none"
  /\ call.batch_size = 2
  /\ pipeline.neuron_configs["unet"].batch_size = 4
  /\ pipeline.num_images_per_prompt = 2

====
